---------------------------- MODULE Spec2Model ----------------------------
(***************************************************************************)
(* Model of the external-process orchestration layer of the cloud-init     *)
(* builder: sysutil.RunCommand, the podman machine lifecycle controller    *)
(* (package deps), the build orchestrator (package builder), the smoke     *)
(* test (package vmtest), the uninstall, the interactive menu and the      *)
(* extraction of the downloaded archives.                                  *)
(*                                                                         *)
(* Spec           builder.Build called again and again                     *)
(* SpecDeps       Build, EnsurePodmanMachine and RemovePodmanMachine       *)
(*                called in any order                                      *)
(* SpecRun        one call of sysutil.RunCommand                           *)
(* SpecQuote      commandString on any command name and arguments          *)
(* SpecTest       one `test` command                                       *)
(* SpecTemplates  deps.EnsureTemplates and the user's edits in turn        *)
(* SpecUninstall  one `uninstall` command                                  *)
(* SpecMenu       the interactive menu, for a bounded input                *)
(* SpecZip        one call of deps.extractZip                              *)
(*                                                                         *)
(* Strings are sequences of tokens.  A token stands for a chunk of text;   *)
(* the chunks the code searches for ("not found", "already exists", ...)   *)
(* are tokens of their own, so strings.Contains, strings.ToLower and       *)
(* strings.TrimSpace are computed on the token sequence.                   *)
(***************************************************************************)
EXTENDS Naturals, Integers, Sequences, FiniteSets, TLC

VARIABLES
    baseDir,      \* the working directory (a text), fixed for a run
    machine,      \* the runtime's machine: "absent", "stopped" or "running"
    conns,        \* connection entries registered in the runtime
    isDefault,    \* the machine's connection is the default connection
    faults,       \* number of commands that met a fault of the host so far
    iso,          \* images/cloud-init.iso: 0 when absent, else the number of the build that wrote it
    pc,           \* position of the Build call in progress ("idle" when none)
    podmanPath,   \* Build's local podmanPath
    machineName,  \* Build's local machineName
    podmanEnv,    \* Build's local podmanEnv
    err,          \* Build's named result err
    retry,        \* ensureMachineExists is in its retry branch
    log,          \* the commands run by the Build call in progress, with their behaviour
    steps,        \* the Build steps entered by the Build call in progress
    failed,       \* the Build step that failed ("" when none)
    builds,       \* number of Build calls that have returned
    ret,          \* the value returned by the last Build call
    op,           \* the exported function in progress, or the last one called
    calls,        \* what each returned call of package deps did, in order
    dirs,         \* the directories under <baseDir>/runtime/podman that exist
    run,          \* one call of sysutil.RunCommand: its inputs, then what it returned
    tpl,          \* the content of templates/user-data.txt and templates/meta-data.txt
    zip,          \* one call of extractZip: the archive, the paths it made, its position
    vm,           \* one `test` command: its inputs, the files it works on, its position
    un            \* one `uninstall` command: the directories under baseDir, its position

vars == <<baseDir, machine, conns, isDefault, faults, iso, pc, podmanPath, machineName,
          podmanEnv, err, retry, log, steps, failed, builds, ret, op, calls, dirs, run,
          tpl, zip, vm, un>>

----------------------------------------------------------------------------
(* Bounds *)

MaxBuilds == 2

\* commands that may meet a fault of the host (no launch, a hang, an unrelated failure)
MaxFaults == 2

----------------------------------------------------------------------------
(* Text *)

\* strings.ToLower on one token
LowerTok(t) ==
    CASE t = "Does Not Exist" -> "does not exist"
      [] t = "Not Found" -> "not found"
      [] t = "No Such VM" -> "no such vm"
      [] t = "Already Stopped" -> "already stopped"
      [] t = "Already Default" -> "already default"
      [] t = "Connection" -> "connection"
      [] t = "Already Exists" -> "already exists"
      [] t = "QEMU-System-x86_64.exe" -> "qemu-system-x86_64.exe"
      [] t = "MyQemu.exe" -> "myqemu.exe"
      [] t = "Yes" -> "yes"
      [] OTHER -> t

ToLower(s) == [i \in DOMAIN s |-> LowerTok(s[i])]

\* the searched chunks that occur inside a token (a token contains itself)
SubTok(t) ==
    CASE t = "no such connection" -> {"no such connection", "connection"}
      [] t = "--connection" -> {"--connection", "connection"}
      [] t = "qemu-system-x86_64.exe" -> {"qemu-system-x86_64.exe", "qemu-system", "qemu"}
      [] t = "myqemu.exe" -> {"myqemu.exe", "qemu"}
      [] t = "qemu/" -> {"qemu/", "qemu"}
      [] OTHER -> {t}

\* strings.Contains(s, pat)
Contains(s, pat) == \E i \in DOMAIN s : pat \in SubTok(s[i])

IsSpace(t) == t \in {"sp", "nl", "tab"}

RECURSIVE TrimLeft(_)
TrimLeft(s) ==
    IF s # <<>> /\ IsSpace(Head(s)) THEN TrimLeft(Tail(s)) ELSE s

RECURSIVE TrimRight(_)
TrimRight(s) ==
    IF s # <<>> /\ IsSpace(s[Len(s)]) THEN TrimRight(SubSeq(s, 1, Len(s) - 1)) ELSE s

\* strings.TrimSpace
TrimSpace(s) == TrimRight(TrimLeft(s))

----------------------------------------------------------------------------
(* sysutil.RunCommand *)

\* time.Duration values, in seconds
machineInitTimeout == 600
machineStartTimeout == 180
shortTimeout == 30
podmanPullTimeout == 600
podmanRunTimeout == 900

\* a process that does not end before any deadline of the program
Hang == 2000
Quick == 1

NoError == [kind |-> "nil", msg |-> <<>>]

\* fmt.Errorf("<label>: %w", e)
Wrap(label, e) == [kind |-> e.kind, msg |-> <<label>> \o e.msg]

\* the nil *RunResult
NilResult ==
    [nil |-> TRUE, Stdout |-> <<>>, Stderr |-> <<>>, ExitCode |-> 0, Duration |-> 0,
     TimedOut |-> FALSE]

\* The characters that matter to shellQuote are tokens of their own: "sp" a
\* space, "tab" a tab, "nl" a line feed, "dq" a double quote, "bs" a backslash.

\* strings.ContainsAny(s, " \t\"")
quoteNeeded(s) == \E i \in DOMAIN s : s[i] \in {"sp", "tab", "dq"}

\* strings.ReplaceAll(s, `"`, `\"`)
RECURSIVE escapeQuotes(_)
escapeQuotes(s) ==
    IF s = <<>> THEN <<>>
    ELSE (IF Head(s) = "dq" THEN <<"bs", "dq">> ELSE <<Head(s)>>) \o escapeQuotes(Tail(s))

shellQuote(s) ==
    IF s = <<>> THEN <<"dq", "dq">>
    ELSE IF quoteNeeded(s) THEN <<"dq">> \o escapeQuotes(s) \o <<"dq">>
    ELSE s

\* strings.Join(words, " ")
RECURSIVE Join(_)
Join(words) ==
    IF words = <<>> THEN <<>>
    ELSE IF Len(words) = 1 THEN words[1]
    ELSE words[1] \o <<"sp">> \o Join(Tail(words))

\* commandString(name, args): args is the sequence of the arguments, each a text
commandString(name, args) ==
    Join(<<shellQuote(name)>> \o [i \in DOMAIN args |-> shellQuote(args[i])])

\* a sequence of arguments of one token each
Words(toks) == [i \in DOMAIN toks |-> <<toks[i]>>]

\* RunOptions: the timeout, and whether a duplicate sink is given for each stream;
\* the callers of this program always pass their logger
Opts(timeout, sink) ==
    [Timeout |-> timeout, Stdout |-> sink, Stderr |-> sink, Logger |-> TRUE]

\* The behaviour of one command is beh:
\*   launch  the process could be started      oserr  the OS error when not
\*   dur     the time the process takes        code   its exit code
\*   stdout, stderr   the chunks it writes when it runs to its end
\*   pace    the k-th chunk of a stream is written at the time k * pace
\*   lag     the time from the end of the process to the reading of ctx.Err()
\*   logTime the time opts.Logger.Printf takes for the end notification
\*   outFail, errFail   the write to the duplicate sink that fails (0: none does)

\* a context with a deadline whatever the timeout
deadlineSetAlways(timeout) == timeout >= 0

\* `if opts.Timeout > 0`: the context gets a deadline
deadlineSet(timeout) == timeout > 0

\* exec.CommandContext: the process is killed when the deadline passes before its end
killed(timeout, beh) == deadlineSet(timeout) /\ beh.launch /\ beh.dur > timeout

\* the time the process ran
ranFor(timeout, beh) ==
    IF ~beh.launch THEN 0
    ELSE IF killed(timeout, beh) THEN timeout
    ELSE beh.dur

\* a deadline that is never seen as passed
deadlineExceededNever(timeout, beh) == FALSE

\* ctx.Err() == context.DeadlineExceeded, read after cmd.Run has returned and the
\* logger has been written
deadlineExceeded(timeout, beh) ==
    deadlineSet(timeout)
        /\ (killed(timeout, beh) \/ ranFor(timeout, beh) + beh.lag > timeout)

\* the chunks of a stream written by the time t
Emitted(chunks, pace, t) ==
    SubSeq(chunks, 1, Cardinality({k \in 1..Len(chunks) : k * pace <= t}))

\* what the process wrote to a stream before it ended or was killed
Output(chunks, timeout, beh) ==
    IF ~beh.launch THEN <<>>
    ELSE IF killed(timeout, beh) THEN Emitted(chunks, beh.pace, timeout)
    ELSE chunks

\* a write to the duplicate sink failed: io.MultiWriter returns the error
copyFailed(chunks, sink, failAt) == sink /\ failAt > 0 /\ failAt <= Len(chunks)

\* what the buffer holds: io.MultiWriter(sink, &buf) writes the sink first, and the
\* copy ends at the first write that fails
Captured(chunks, sink, failAt) ==
    IF copyFailed(chunks, sink, failAt) THEN SubSeq(chunks, 1, failAt - 1) ELSE chunks

\* what the duplicate sink holds (the failed write left out)
SinkGot(chunks, sink, failAt) ==
    IF ~sink THEN <<>>
    ELSE IF copyFailed(chunks, sink, failAt) THEN SubSeq(chunks, 1, failAt - 1)
    ELSE chunks

\* a call that takes any name, the empty one too
nameMissingNever(name) == FALSE

\* `if name == ""`
nameMissing(name) == name = <<>>

\* the time from the end of the process to the reading of ctx.Err(): the end
\* notification is written in between when a logger is supplied
sinceExit(opts, beh) == beh.lag + (IF opts.Logger THEN beh.logTime ELSE 0)

\* the messages RunCommand hands to opts.Logger, in order
Notes(opts, cmdLine, exitCode, duration) ==
    IF opts.Logger
    THEN << <<"running command:">> \o cmdLine,
            <<"command finished", exitCode, duration>> >>
    ELSE <<>>

\* RunCommand returns result and err; sinks is what it wrote to the duplicate
\* sinks, notes what it told the logger, started whether a process was started
RunCommand(opts, name, args, beh) ==
    LET cmdLine == commandString(name, args)
        out == Output(beh.stdout, opts.Timeout, beh)
        errout == Output(beh.stderr, opts.Timeout, beh)
        expired == deadlineExceeded(opts.Timeout, [beh EXCEPT !.lag = sinceExit(opts, beh)])
        result == [nil |-> FALSE,
                   Stdout |-> Captured(out, opts.Stdout, beh.outFail),
                   Stderr |-> Captured(errout, opts.Stderr, beh.errFail),
                   \* a process that was not started has no ProcessState (0); a killed
                   \* one reports -1
                   ExitCode |-> IF ~beh.launch THEN 0
                                ELSE IF killed(opts.Timeout, beh) THEN -1
                                ELSE beh.code,
                   Duration |-> ranFor(opts.Timeout, beh),
                   TimedOut |-> expired]
        sinks == [Stdout |-> SinkGot(out, opts.Stdout, beh.outFail),
                  Stderr |-> SinkGot(errout, opts.Stderr, beh.errFail)]
        ran == [result |-> result, sinks |-> sinks,
                notes |-> Notes(opts, cmdLine, result.ExitCode, result.Duration),
                started |-> beh.launch, err |-> NoError]
    IN  IF nameMissing(name)
        THEN [result |-> NilResult, sinks |-> [Stdout |-> <<>>, Stderr |-> <<>>],
              notes |-> <<>>, started |-> FALSE,
              err |-> [kind |-> "invalid", msg |-> <<"sysutil: command name is required">>]]
        ELSE IF expired
        THEN [ran EXCEPT !.err = [kind |-> "timeout",
                                  msg |-> <<"command timed out after">> \o cmdLine]]
        ELSE IF ~beh.launch
        THEN [ran EXCEPT !.err = [kind |-> "launch", msg |-> <<"command failed:">> \o beh.oserr]]
        ELSE IF beh.code # 0
        THEN [ran EXCEPT !.err = [kind |-> "exit",
                                  msg |-> <<"command failed with exit code">> \o cmdLine]]
        ELSE IF copyFailed(out, opts.Stdout, beh.outFail)
                  \/ copyFailed(errout, opts.Stderr, beh.errFail)
        \* cmd.Run returns the error of the copy when the process itself succeeded
        THEN [ran EXCEPT !.err = [kind |-> "copy", msg |-> <<"command failed:", "write error">>]]
        ELSE [ran EXCEPT !.err = NoError]

----------------------------------------------------------------------------
(* The runtime (podman) as the program sees it: what each command does to  *)
(* the machine and how the process behaves.                                *)

podmanMachineName == <<"cloudinit-builder">>
rootConnectionName == <<"cloudinit-builder-root">>

\* filepath.Join(dir, "runtime", "podman", leaf)
RuntimeDir(dir, leaf) == dir \o <<"runtime", "podman", leaf>>

\* the directories podmanEnv creates, in its order
PodmanDirs == <<"config", "tmp", "run", "home">>

\* bindings that leave TMPDIR to the host's temporary directory
podmanEnvHostTmp(dir) ==
    << <<"XDG_CONFIG_HOME=">> \o RuntimeDir(dir, "config"),
       <<"XDG_RUNTIME_DIR=">> \o RuntimeDir(dir, "run"),
       <<"PODMAN_CONFIG=">> \o RuntimeDir(dir, "config") \o <<"containers.conf">>,
       <<"PODMAN_TMPDIR=">> \o RuntimeDir(dir, "tmp"),
       <<"TMPDIR=">> \o <<"C:/Windows/Temp">>,
       <<"HOME=">> \o RuntimeDir(dir, "home") >>

\* podmanEnv(baseDir): the six bindings, each under <baseDir>/runtime/podman
podmanEnvOf(dir) ==
    << <<"XDG_CONFIG_HOME=">> \o RuntimeDir(dir, "config"),
       <<"XDG_RUNTIME_DIR=">> \o RuntimeDir(dir, "run"),
       <<"PODMAN_CONFIG=">> \o RuntimeDir(dir, "config") \o <<"containers.conf">>,
       <<"PODMAN_TMPDIR=">> \o RuntimeDir(dir, "tmp"),
       <<"TMPDIR=">> \o RuntimeDir(dir, "tmp"),
       <<"HOME=">> \o RuntimeDir(dir, "home") >>

\* EnsurePodman's result: <baseDir>/tools/podman/podman.exe
podmanExeOf(dir) == dir \o <<"tools/podman/podman.exe">>

Exit(code, out, errout) ==
    [launch |-> TRUE, oserr |-> <<>>, dur |-> Quick, code |-> code,
     stdout |-> out, stderr |-> errout, pace |-> 0, lag |-> 0, logTime |-> 0, outFail |-> 0, errFail |-> 0]

\* what the OS reports when the executable cannot be started
OsErrors == { <<"exec: podman.exe: file", "does not exist">>, <<"Access is denied.">> }

\* behaviours any command can show whatever the machine's state
Faults ==
    { [launch |-> FALSE, oserr |-> e, dur |-> Quick, code |-> 0,
       stdout |-> <<>>, stderr |-> <<>>, pace |-> 0, lag |-> 0, logTime |-> 0, outFail |-> 0,
       errFail |-> 0] : e \in OsErrors }
    \cup { [launch |-> TRUE, oserr |-> <<>>, dur |-> Hang, code |-> 0,
            stdout |-> <<>>, stderr |-> <<>>, pace |-> 0, lag |-> 0, logTime |-> 0, outFail |-> 0,
            errFail |-> 0],
           Exit(125, <<>>, <<"Error:", "permission denied">>) }

\* the runtime's wordings for a machine that does not exist
MissingReports ==
    { Exit(125, <<>>, <<"Error:", "vm", "Does Not Exist">>),
      Exit(125, <<"no such vm">>, <<>>),
      Exit(125, <<>>, <<"Error:", "vm", "not found">>) }

World ==
    [machine |-> machine, conns |-> conns, isDefault |-> isDefault, iso |-> iso,
     faults |-> faults]

Same(b) == {[beh |-> b, world |-> World]}

\* The behaviours of `podman <cmd>` in the present state of the runtime, each with
\* the state it leaves.  A fault leaves the state as it is.
Podman(cmd) ==
    {[beh |-> b, world |-> [World EXCEPT !.faults = faults + 1]] :
        b \in IF faults < MaxFaults THEN Faults ELSE {}} \cup
    CASE cmd = "inspect" ->
           IF machine = "absent"
           THEN {[beh |-> b, world |-> World] : b \in MissingReports}
           ELSE Same(Exit(0, <<"{json}">>, <<>>))
      [] cmd \in {"conn rm", "conn rm root"} ->
           LET n == IF cmd = "conn rm" THEN "name" ELSE "root" IN
           IF n \in conns
           THEN {[beh |-> Exit(0, <<>>, <<>>), world |-> [World EXCEPT !.conns = conns \ {n}]]}
           ELSE Same(Exit(125, <<>>, <<"Error:", "no such connection">>))
      [] cmd = "init" ->
           IF machine # "absent"
           THEN Same(Exit(125, <<>>, <<"Error:", "vm", "Already Exists">>))
           ELSE IF conns # {}
           THEN Same(Exit(125, <<>>, <<"Error:", "Connection", "Already Exists">>))
           ELSE {[beh |-> Exit(0, <<>>, <<>>),
                  world |-> [World EXCEPT !.machine = "running", !.conns = {"name", "root"}]]}
      [] cmd = "state" ->
           IF machine = "absent"
           THEN {[beh |-> b, world |-> World] : b \in MissingReports}
           ELSE Same(Exit(0, <<machine, "nl">>, <<>>))
      [] cmd = "start" ->
           IF machine = "absent"
           THEN {[beh |-> b, world |-> World] : b \in MissingReports}
           ELSE IF machine = "running"
           THEN Same(Exit(125, <<>>, <<"Error:", "already running">>))
           ELSE {[beh |-> Exit(0, <<>>, <<>>), world |-> [World EXCEPT !.machine = "running"]]}
      [] cmd = "default" ->
           IF "name" \notin conns
           THEN Same(Exit(125, <<>>, <<"Error:", "no such connection">>))
           ELSE IF isDefault
           THEN {[beh |-> b, world |-> World] :
                    b \in {Exit(0, <<>>, <<>>), Exit(125, <<>>, <<"Error:", "already default">>)}}
           ELSE {[beh |-> Exit(0, <<>>, <<>>), world |-> [World EXCEPT !.isDefault = TRUE]]}
      [] cmd = "pull" ->
           IF machine = "running"
           THEN Same(Exit(0, <<>>, <<>>))
           ELSE Same(Exit(125, <<>>, <<"Error:", "cannot connect">>))
      [] cmd = "run" ->
           IF machine = "running"
           THEN {[beh |-> Exit(0, <<>>, <<>>), world |-> [World EXCEPT !.iso = builds + 1]],
                 [beh |-> Exit(1, <<>>, <<"genisoimage failed">>), world |-> World]}
           ELSE Same(Exit(125, <<>>, <<"Error:", "cannot connect">>))
      [] cmd = "stop" ->
           IF machine = "absent"
           THEN {[beh |-> b, world |-> World] : b \in MissingReports}
           ELSE IF machine = "stopped"
           THEN {[beh |-> b, world |-> World] :
                    b \in {Exit(0, <<>>, <<>>), Exit(125, <<>>, <<"Error:", "Already Stopped">>)}}
           ELSE {[beh |-> Exit(0, <<>>, <<>>), world |-> [World EXCEPT !.machine = "stopped"]]}
      [] cmd = "machine rm" ->
           IF machine = "absent"
           THEN {[beh |-> b, world |-> World] : b \in MissingReports}
           \* the machine goes; its connection entries go with it or are left behind
           ELSE {[beh |-> Exit(0, <<>>, <<>>),
                  world |-> [World EXCEPT !.machine = "absent", !.conns = c,
                                          !.isDefault = FALSE]] : c \in {{}, conns}}

\* the arguments of each command, after the executable's name
ArgsOf(cmd) ==
    CASE cmd = "inspect" -> Words(<<"machine", "inspect">>) \o <<podmanMachineName>>
      [] cmd = "conn rm" -> Words(<<"system", "connection", "rm">>) \o <<podmanMachineName>>
      [] cmd = "conn rm root" -> Words(<<"system", "connection", "rm">>) \o <<rootConnectionName>>
      [] cmd = "init" -> Words(<<"machine", "init">>) \o <<podmanMachineName>> \o Words(<<"--now">>)
      [] cmd = "state" -> Words(<<"machine", "inspect">>) \o <<podmanMachineName>>
                              \o Words(<<"--format", "{{.State}}">>)
      [] cmd = "start" -> Words(<<"machine", "start">>) \o <<podmanMachineName>>
      [] cmd = "default" -> Words(<<"system", "connection", "default">>) \o <<podmanMachineName>>
      [] cmd = "pull" -> Words(<<"--connection">>) \o <<machineName>>
                             \o Words(<<"pull", "debian:bookworm">>)
      [] cmd = "run" -> Words(<<"--connection">>) \o <<machineName>>
                            \o Words(<<"run", "--rm", "bash", "-c">>)
      [] cmd = "stop" -> Words(<<"machine", "stop">>) \o <<machineName>>
      [] cmd = "machine rm" -> Words(<<"machine", "rm", "-f">>) \o <<podmanMachineName>>

----------------------------------------------------------------------------
(* package deps: the machine lifecycle controller *)

machineMissing(e, result) ==
    IF e.kind = "nil" THEN FALSE
    ELSE LET msg == ToLower(e.msg) IN
         IF Contains(msg, "no such vm") \/ Contains(msg, "not found")
               \/ Contains(msg, "does not exist")
         THEN TRUE
         ELSE IF ~result.nil
         THEN LET stdout == ToLower(result.Stdout)
                  stderr == ToLower(result.Stderr)
              IN  Contains(stdout, "does not exist") \/ Contains(stderr, "does not exist")
                    \/ Contains(stdout, "no such vm") \/ Contains(stderr, "no such vm")
         ELSE FALSE

\* ensureMachineExists: the test for retrying `machine init`
initRetryWanted(e) ==
    LET errLower == ToLower(e.msg) IN
    Contains(errLower, "connection") /\ Contains(errLower, "already exists")

\* cleanupMachineConnection: a failed removal the loop passes over
cleanupSwallows(e, result) ==
    \/ machineMissing(e, result)
    \/ LET errLower == ToLower(e.msg) IN
       Contains(errLower, "no such connection") \/ Contains(errLower, "not found")

\* ensureDefaultConnection: a failure that is let pass
defaultTolerated(e) == Contains(e.msg, "already default")

\* StopPodmanMachine: a failed stop that counts as success
stopBenign(e, result) ==
    machineMissing(e, result) \/ Contains(ToLower(e.msg), "already stopped")

\* the state compared with the capitalised word
isRunningCapital(state) == TrimSpace(state) = <<"Running">>

\* ensureMachineRunning: no start is needed
isRunning(state) == TrimSpace(state) = <<"running">>

\* the pull's error wrapped with the context of the run
StepLabelCopied(step) ==
    CASE step = "layout" -> "ensure base layout"
      [] step = "templates" -> "ensure templates"
      [] step = "podman" -> "ensure podman"
      [] step = "machine" -> "ensure podman machine"
      [] step = "pull" -> "podman run"
      [] step = "remove" -> "podman run"
      [] step = "run" -> "podman run"

\* the context Build wraps a failing step's error with; the removal of the old
\* artifact is inside runPodmanRun, whose error Build wraps with "podman run"
StepLabel(step) ==
    CASE step = "layout" -> "ensure base layout"
      [] step = "templates" -> "ensure templates"
      [] step = "podman" -> "ensure podman"
      [] step = "machine" -> "ensure podman machine"
      [] step = "pull" -> "podman pull"
      [] step = "remove" -> "podman run"
      [] step = "run" -> "podman run"

IOError == [kind |-> "io", msg |-> <<"mkdir: access is denied">>]

SetWorld(w) ==
    /\ machine' = w.machine
    /\ conns' = w.conns
    /\ isDefault' = w.isDefault
    /\ iso' = w.iso
    /\ faults' = w.faults

WorldUnchanged == UNCHANGED <<machine, conns, isDefault, iso, faults>>

\* the logWriter handed to RunCommand as Stdout and Stderr: Build passes its log
\* file, RemovePodmanMachine passes nil
logWriter == op # "RemovePodmanMachine"

\* a command is run with env: kept with the state of the machine it met and the
\* directories that exist when it starts
Logged(cmd, env, timeout, beh) ==
    log' = Append(log, [cmd |-> cmd, env |-> env, timeout |-> timeout, sink |-> logWriter,
                        beh |-> beh, machine |-> machine, dirs |-> dirs])

\* what RunCommand returned for the i-th command of the log
ResultOf(i) ==
    RunCommand(Opts(log[i].timeout, log[i].sink), podmanPath, ArgsOf(log[i].cmd), log[i].beh)

Succeeded(i) == ResultOf(i).err.kind = "nil"

\* EnsurePodmanMachine returns "", nil, e; Build returns "ensure podman machine: e"
MachineError(e) ==
    /\ machineName' = <<>>
    /\ podmanEnv' = <<>>
    /\ failed' = "machine"
    /\ IF op = "Build"
       THEN err' = Wrap(StepLabel("machine"), e) /\ pc' = "defer"
       ELSE err' = e /\ pc' = "return"

\* podmanEnv's loop over the four directories: n of them are made before
\* fsutil.EnsureDir fails (all four: it does not fail)
MakeDirs(n) == dirs' = dirs \cup {PodmanDirs[k] : k \in 1..n}

\* where cleanupMachineConnection returns to
AfterCleanup == IF op = "RemovePodmanMachine" THEN "return" ELSE "init"

----------------------------------------------------------------------------
(* package builder: Build, with the steps of EnsurePodmanMachine inlined *)

\* no call of RunCommand is under study
NoRun == [state |-> "none"]

\* no `test` command and no `uninstall` command is under study
NoTest == [pc |-> "none"]
NoUninstall == [pc |-> "none"]
NoExtract == [pc |-> "none"]

\* a file that does not exist
Absent == <<"(absent)">>

\* the templates directory before the first build
NoTemplates == [userData |-> Absent, metaData |-> Absent]

\* defaultUserData() and defaultMetaData()
defaultUserData ==
    <<"#cloud-config", "hostname: vce", "password: Velocloud123", "chpasswd: {expire: False}",
      "ssh_pwauth: True">>
defaultMetaData == <<"instance-id: vce", "local-hostname: vce">>

\* the two files as an earlier build left them
WrittenTemplates == [userData |-> defaultUserData, metaData |-> defaultMetaData]

BaseDirs ==
    { <<"C:/work/">>,
      <<"C:/", "Connection", "Already Exists", "/">>,
      <<"C:/", "Not Found", "/">> }

Init ==
    /\ baseDir \in BaseDirs
    /\ machine \in {"absent", "stopped", "running"}
    /\ conns \in IF machine = "absent" THEN SUBSET {"name", "root"} ELSE {{"name", "root"}}
    /\ isDefault \in IF machine = "absent" THEN {FALSE} ELSE BOOLEAN
    /\ faults = 0
    /\ iso = 0
    /\ pc = "idle"
    /\ podmanPath = <<>>
    /\ machineName = <<>>
    /\ podmanEnv = <<>>
    /\ err = NoError
    /\ retry = FALSE
    /\ log = <<>>
    /\ steps = <<>>
    /\ failed = ""
    /\ builds = 0
    /\ ret = NoError
    /\ op = "Build"
    /\ calls = <<>>
    /\ dirs = {}
    /\ run = NoRun
    /\ tpl = WrittenTemplates
    /\ vm = NoTest
    /\ zip = NoExtract
    /\ un = NoUninstall

\* Build is entered: the operation logger is created, the locals are zero
BuildStart ==
    /\ pc = "idle"
    /\ builds < MaxBuilds
    /\ pc' = "layout"
    /\ podmanPath' = <<>>
    /\ machineName' = <<>>
    /\ podmanEnv' = <<>>
    /\ err' = NoError
    /\ retry' = FALSE
    /\ log' = <<>>
    /\ steps' = <<>>
    /\ failed' = ""
    /\ op' = "Build"
    /\ WorldUnchanged
    /\ UNCHANGED <<calls, run, dirs, tpl, vm, un, zip, baseDir, builds, ret>>

\* logutil.NewOperationLogger fails: Build returns its error as it is
BuildLoggerFails ==
    /\ pc = "idle"
    /\ builds < MaxBuilds
    /\ err' = IOError
    /\ ret' = IOError
    /\ builds' = builds + 1
    /\ log' = <<>>
    /\ steps' = <<>>
    /\ failed' = "logger"
    /\ podmanPath' = <<>>
    /\ machineName' = <<>>
    /\ podmanEnv' = <<>>
    /\ retry' = FALSE
    /\ op' = "Build"
    /\ WorldUnchanged
    /\ UNCHANGED <<calls, run, dirs, tpl, vm, un, zip, baseDir, pc>>

\* deps.EnsureBaseLayout; on failure Build returns before its defer is registered
EnsureBaseLayout ==
    /\ pc = "layout"
    /\ steps' = Append(steps, "layout")
    /\ \E ok \in BOOLEAN :
          IF ok
          THEN /\ pc' = "templates"
               /\ MakeDirs(Len(PodmanDirs))
               /\ UNCHANGED <<err, failed, builds, ret>>
          ELSE /\ err' = Wrap(StepLabel("layout"), IOError)
               /\ failed' = "layout"
               /\ ret' = err'
               /\ builds' = builds + 1
               /\ pc' = "idle"
               /\ UNCHANGED dirs
    /\ WorldUnchanged
    /\ UNCHANGED <<op, calls, run, tpl, vm, un, zip, baseDir, podmanPath, machineName,
                   podmanEnv, retry, log>>

\* what the host lets ensureFileWithContent do: all of it, no os.Stat, no
\* os.Create, or no complete write of the content
WriteOutcomes == {"ok", "no stat", "no create", "no write"}

\* a version that writes the content whatever is there
ensureFileAlways(cur, content, outcome) ==
    [file |-> content, created |-> TRUE, err |-> NoError]

\* ensureFileWithContent(path, content) for a file whose content is cur (Absent
\* when it does not exist): the content after the call, created and err
ensureFileWithContent(cur, content, outcome) ==
    IF outcome = "no stat" THEN [file |-> cur, created |-> FALSE, err |-> IOError]
    ELSE IF cur # Absent THEN [file |-> cur, created |-> FALSE, err |-> NoError]
    ELSE IF outcome = "no create" THEN [file |-> Absent, created |-> FALSE, err |-> IOError]
    \* fsutil.CopyStream: os.Create has made the file when io.Copy fails
    ELSE IF outcome = "no write" THEN [file |-> <<>>, created |-> FALSE, err |-> IOError]
    ELSE [file |-> content, created |-> TRUE, err |-> NoError]

\* EnsureTemplates on the two files: user-data.txt, and meta-data.txt when the
\* first call returned no error; created is what it told the logger
ensureTemplates(t, o1, o2) ==
    LET u == ensureFileWithContent(t.userData, defaultUserData, o1)
        m == ensureFileWithContent(t.metaData, defaultMetaData, o2)
    IN  IF u.err.kind # "nil"
        THEN [tpl |-> [t EXCEPT !.userData = u.file], err |-> u.err,
              created |-> <<>>]
        ELSE [tpl |-> [userData |-> u.file, metaData |-> m.file], err |-> m.err,
              created |-> (IF u.created THEN <<"user-data">> ELSE <<>>)
                              \o (IF m.created THEN <<"meta-data">> ELSE <<>>)]

\* deps.EnsureTemplates, as a step of Build or called by another client
EnsureTemplates ==
    /\ pc = "templates"
    /\ steps' = Append(steps, "templates")
    /\ \E o1, o2 \in WriteOutcomes :
          LET r == ensureTemplates(tpl, o1, o2) IN
          /\ tpl' = r.tpl
          /\ IF op # "Build"
             THEN /\ pc' = "idle"
                  /\ ret' = r.err
                  /\ calls' = Append(calls, [op |-> op, ok |-> r.err.kind = "nil",
                                              before |-> tpl, after |-> r.tpl,
                                              created |-> r.created])
                  /\ UNCHANGED <<err, failed, builds>>
             ELSE IF r.err.kind = "nil"
             THEN pc' = "podman" /\ UNCHANGED <<err, failed, builds, ret, calls>>
             ELSE /\ err' = Wrap(StepLabel("templates"), r.err)
                  /\ failed' = "templates"
                  /\ ret' = err'
                  /\ builds' = builds + 1
                  /\ pc' = "idle"
                  /\ UNCHANGED calls
    /\ WorldUnchanged
    /\ UNCHANGED <<op, run, dirs, vm, un, zip, baseDir, podmanPath, machineName, podmanEnv,
                   retry, log>>

\* deps.EnsurePodman: the executable's path, or "" with an error
EnsurePodman ==
    /\ pc = "podman"
    /\ steps' = Append(steps, "podman")
    /\ \E ok \in BOOLEAN :
          IF ok
          THEN /\ podmanPath' = podmanExeOf(baseDir)
               /\ pc' = "machine"
               /\ UNCHANGED <<err, failed>>
          ELSE /\ podmanPath' = <<>>
               /\ err' = Wrap(StepLabel("podman"), IOError)
               /\ failed' = "podman"
               /\ pc' = "defer"
    /\ WorldUnchanged
    /\ UNCHANGED <<op, calls, run, dirs, tpl, vm, un, zip, baseDir, machineName, podmanEnv,
                   retry, log, builds, ret>>

\* EnsurePodmanMachine is entered: podmanEnv(baseDir) creates the four directories
BeginEnsureMachine ==
    /\ pc = "machine"
    /\ steps' = Append(steps, "machine")
    /\ \E n \in 0..Len(PodmanDirs) :
          /\ MakeDirs(n)
          /\ IF n = Len(PodmanDirs)
             THEN pc' = "inspect" /\ UNCHANGED <<machineName, podmanEnv, err, failed>>
             ELSE MachineError(IOError)
    /\ WorldUnchanged
    /\ UNCHANGED <<op, calls, run, tpl, vm, un, zip, baseDir, podmanPath, retry, log, builds, ret>>

\* ensureMachineExists: `machine inspect <name>`
InspectMachine ==
    /\ pc = "inspect"
    /\ \E o \in Podman("inspect") :
          LET r == RunCommand(Opts(machineStartTimeout, logWriter), podmanPath, ArgsOf("inspect"), o.beh) IN
          /\ SetWorld(o.world)
          /\ Logged("inspect", podmanEnvOf(baseDir), machineStartTimeout, o.beh)
          /\ IF r.err.kind = "nil"
             THEN pc' = "state" /\ UNCHANGED <<machineName, podmanEnv, err, failed>>
             ELSE IF ~machineMissing(r.err, r.result)
             THEN MachineError(Wrap("check podman machine", r.err))
             ELSE pc' = "rm" /\ UNCHANGED <<machineName, podmanEnv, err, failed>>
    /\ UNCHANGED <<op, calls, run, dirs, tpl, vm, un, zip, baseDir, podmanPath, retry, steps,
                   builds, ret>>

\* cleanupMachineConnection, first name: `system connection rm <name>`
CleanupConnection ==
    /\ pc = "rm"
    /\ \E o \in Podman("conn rm") :
          LET r == RunCommand(Opts(shortTimeout, logWriter), podmanPath, ArgsOf("conn rm"), o.beh) IN
          /\ SetWorld(o.world)
          /\ Logged("conn rm", podmanEnvOf(baseDir), shortTimeout, o.beh)
          /\ IF r.err.kind = "nil" \/ cleanupSwallows(r.err, r.result)
             THEN pc' = "rm root"
             ELSE pc' = AfterCleanup
    /\ UNCHANGED <<op, calls, run, dirs, tpl, vm, un, zip, baseDir, podmanPath, machineName,
                   podmanEnv, err, retry, steps,
                   failed, builds, ret>>

\* cleanupMachineConnection, second name: `system connection rm <name>-root`;
\* whatever it returns, the caller only logs it
CleanupRootConnection ==
    /\ pc = "rm root"
    /\ \E o \in Podman("conn rm root") :
          /\ SetWorld(o.world)
          /\ Logged("conn rm root", podmanEnvOf(baseDir), shortTimeout, o.beh)
    /\ pc' = AfterCleanup
    /\ UNCHANGED <<op, calls, run, dirs, tpl, vm, un, zip, baseDir, podmanPath, machineName,
                   podmanEnv, err, retry, steps,
                   failed, builds, ret>>

\* ensureMachineExists: `machine init <name> --now`, first attempt and retry
InitMachine ==
    /\ pc = "init"
    /\ \E o \in Podman("init") :
          LET r == RunCommand(Opts(machineInitTimeout, logWriter), podmanPath, ArgsOf("init"), o.beh) IN
          /\ SetWorld(o.world)
          /\ Logged("init", podmanEnvOf(baseDir), machineInitTimeout, o.beh)
          /\ IF r.err.kind = "nil"
             THEN pc' = "state" /\ UNCHANGED <<machineName, podmanEnv, err, failed, retry>>
             ELSE IF retry
             THEN /\ MachineError(Wrap("podman machine init after cleanup", r.err))
                  /\ UNCHANGED retry
             ELSE IF initRetryWanted(r.err)
             THEN /\ retry' = TRUE
                  /\ pc' = "rm"
                  /\ UNCHANGED <<machineName, podmanEnv, err, failed>>
             ELSE /\ MachineError(Wrap("podman machine init", r.err))
                  /\ UNCHANGED retry
    /\ UNCHANGED <<op, calls, run, dirs, tpl, vm, un, zip, baseDir, podmanPath, steps, builds, ret>>

\* ensureMachineRunning: machineState, then the comparison with "running"
MachineState ==
    /\ pc = "state"
    /\ \E o \in Podman("state") :
          LET r == RunCommand(Opts(shortTimeout, logWriter), podmanPath, ArgsOf("state"), o.beh) IN
          /\ SetWorld(o.world)
          /\ Logged("state", podmanEnvOf(baseDir), shortTimeout, o.beh)
          /\ IF r.err.kind # "nil"
             THEN MachineError(Wrap("podman machine inspect", r.err))
             ELSE /\ pc' = IF isRunning(TrimSpace(r.result.Stdout)) THEN "default" ELSE "start"
                  /\ UNCHANGED <<machineName, podmanEnv, err, failed>>
    /\ UNCHANGED <<op, calls, run, dirs, tpl, vm, un, zip, baseDir, podmanPath, retry, steps,
                   builds, ret>>

\* ensureMachineRunning: `machine start <name>`
StartMachine ==
    /\ pc = "start"
    /\ \E o \in Podman("start") :
          LET r == RunCommand(Opts(machineStartTimeout, logWriter), podmanPath, ArgsOf("start"), o.beh) IN
          /\ SetWorld(o.world)
          /\ Logged("start", podmanEnvOf(baseDir), machineStartTimeout, o.beh)
          /\ IF r.err.kind # "nil"
             THEN MachineError(Wrap("podman machine start", r.err))
             ELSE pc' = "default" /\ UNCHANGED <<machineName, podmanEnv, err, failed>>
    /\ UNCHANGED <<op, calls, run, dirs, tpl, vm, un, zip, baseDir, podmanPath, retry, steps,
                   builds, ret>>

\* ensureDefaultConnection, and the return of EnsurePodmanMachine to Build
DefaultConnection ==
    /\ pc = "default"
    /\ \E o \in Podman("default") :
          LET r == RunCommand(Opts(shortTimeout, logWriter), podmanPath, ArgsOf("default"), o.beh) IN
          /\ SetWorld(o.world)
          /\ Logged("default", podmanEnvOf(baseDir), shortTimeout, o.beh)
          /\ IF r.err.kind # "nil" /\ ~defaultTolerated(r.err)
             THEN MachineError(Wrap("set podman connection default", r.err))
             ELSE /\ machineName' = podmanMachineName
                  /\ podmanEnv' = podmanEnvOf(baseDir)
                  /\ pc' = IF op = "Build" THEN "pull" ELSE "return"
                  /\ UNCHANGED <<err, failed>>
    /\ UNCHANGED <<op, calls, run, dirs, tpl, vm, un, zip, baseDir, podmanPath, retry, steps,
                   builds, ret>>

\* runPodman: `--connection <name> pull <image>`
Pull ==
    /\ pc = "pull"
    /\ steps' = Append(steps, "pull")
    /\ \E o \in Podman("pull") :
          LET r == RunCommand(Opts(podmanPullTimeout, logWriter), podmanPath, ArgsOf("pull"), o.beh) IN
          /\ SetWorld(o.world)
          /\ Logged("pull", podmanEnv, podmanPullTimeout, o.beh)
          /\ IF r.err.kind # "nil"
             THEN /\ err' = Wrap(StepLabel("pull"), r.err)
                  /\ failed' = "pull"
                  /\ pc' = "defer"
             ELSE pc' = "remove" /\ UNCHANGED <<err, failed>>
    /\ UNCHANGED <<op, calls, run, dirs, tpl, vm, un, zip, baseDir, podmanPath, machineName,
                   podmanEnv, retry, builds, ret>>

\* runPodmanRun: os.Remove(isoPath); a file that does not exist is no error
RemoveOldISO ==
    /\ pc = "remove"
    /\ steps' = Append(steps, "remove")
    /\ \E ok \in BOOLEAN :
          IF ok
          THEN /\ iso' = 0
               /\ pc' = "run"
               /\ UNCHANGED <<err, failed>>
          ELSE /\ iso' = iso
               /\ err' = Wrap(StepLabel("remove"), IOError)
               /\ failed' = "remove"
               /\ pc' = "defer"
    /\ UNCHANGED <<op, calls, run, dirs, tpl, vm, un, zip, baseDir, machine, conns, isDefault,
                   faults, podmanPath, machineName,
                   podmanEnv, retry, log, builds, ret>>

\* runPodmanRun: EnsureDir(images), then `--connection <name> run ... genisoimage`
PodmanRun ==
    /\ pc = "run"
    /\ steps' = Append(steps, "run")
    /\ \/ /\ err' = Wrap(StepLabel("run"), IOError)
          /\ failed' = "run"
          /\ pc' = "defer"
          /\ WorldUnchanged
          /\ UNCHANGED log
       \/ \E o \in Podman("run") :
             LET r == RunCommand(Opts(podmanRunTimeout, logWriter), podmanPath, ArgsOf("run"), o.beh) IN
             /\ SetWorld(o.world)
             /\ Logged("run", podmanEnv, podmanRunTimeout, o.beh)
             /\ pc' = "defer"
             /\ IF r.err.kind # "nil"
                THEN err' = Wrap(StepLabel("run"), r.err) /\ failed' = "run"
                ELSE err' = NoError /\ UNCHANGED failed
    /\ UNCHANGED <<op, calls, run, dirs, tpl, vm, un, zip, baseDir, podmanPath, machineName,
                   podmanEnv, retry, builds, ret>>

\* StopPodmanMachine's result for the behaviour of `machine stop`
StopPodmanMachine(r) ==
    IF r.err.kind # "nil"
    THEN IF stopBenign(r.err, r.result) THEN NoError ELSE Wrap("podman machine stop", r.err)
    ELSE NoError

\* Build's deferred function assigning the stop error to the named result
BuildResultStopWins(e, stopErr) == IF stopErr.kind # "nil" THEN stopErr ELSE e

\* what Build returns once the deferred function has run with stopErr
BuildResult(e, stopErr) == e

\* a deferred function that stops the machine only when the build succeeded
DeferredStopOnSuccessOnly ==
    /\ pc = "defer"
    /\ IF podmanPath = <<>> \/ machineName = <<>> \/ Len(podmanEnv) = 0 \/ err.kind # "nil"
       THEN /\ ret' = err
            /\ WorldUnchanged
            /\ UNCHANGED log
       ELSE \E o \in Podman("stop") :
               /\ SetWorld(o.world)
               /\ Logged("stop", podmanEnv, machineStartTimeout, o.beh)
               /\ ret' = err
    /\ builds' = builds + 1
    /\ pc' = "idle"
    /\ UNCHANGED <<op, calls, run, dirs, tpl, vm, un, zip, baseDir, podmanPath, machineName,
                   podmanEnv, err, retry, steps, failed>>

\* Build's deferred function, then Build returns
DeferredStop ==
    /\ pc = "defer"
    /\ IF podmanPath = <<>> \/ machineName = <<>> \/ Len(podmanEnv) = 0
       THEN /\ ret' = err
            /\ WorldUnchanged
            /\ UNCHANGED log
       ELSE \E o \in Podman("stop") :
               LET r == RunCommand(Opts(machineStartTimeout, logWriter), podmanPath, ArgsOf("stop"), o.beh)
                   stopErr == StopPodmanMachine(r)
               IN  /\ SetWorld(o.world)
                   /\ Logged("stop", podmanEnv, machineStartTimeout, o.beh)
                   /\ ret' = BuildResult(err, stopErr)
    /\ builds' = builds + 1
    /\ pc' = "idle"
    /\ UNCHANGED <<op, calls, run, dirs, tpl, vm, un, zip, baseDir, podmanPath, machineName,
                   podmanEnv, err, retry, steps, failed>>

Next ==
    \/ BuildStart
    \/ BuildLoggerFails
    \/ EnsureBaseLayout
    \/ EnsureTemplates
    \/ EnsurePodman
    \/ BeginEnsureMachine
    \/ InspectMachine
    \/ CleanupConnection
    \/ CleanupRootConnection
    \/ InitMachine
    \/ MachineState
    \/ StartMachine
    \/ DefaultConnection
    \/ Pull
    \/ RemoveOldISO
    \/ PodmanRun
    \/ DeferredStop

Spec == Init /\ [][Next]_vars

----------------------------------------------------------------------------
(* package deps called by any client: Build, EnsurePodmanMachine and       *)
(* RemovePodmanMachine, one call after the other                           *)

MaxCalls == 2

CallsLeft == Len(calls) + builds < MaxCalls

\* the locals of a call of package deps at its entry
EnterDeps(f) ==
    /\ op' = f
    /\ podmanPath' = podmanExeOf(baseDir)
    /\ podmanEnv' = <<>>
    /\ err' = NoError
    /\ retry' = FALSE
    /\ log' = <<>>
    /\ steps' = <<>>
    /\ failed' = ""

\* a client calls EnsurePodmanMachine(baseDir, podmanPath, ...)
EnsurePodmanMachine ==
    /\ pc = "idle"
    /\ CallsLeft
    /\ EnterDeps("EnsurePodmanMachine")
    /\ machineName' = <<>>
    /\ pc' = "machine"
    /\ WorldUnchanged
    /\ UNCHANGED <<calls, run, dirs, tpl, vm, un, zip, baseDir, builds, ret>>

\* RemovePodmanMachine(baseDir, podmanPath, logger) is entered: podmanEnv makes n
\* of its directories
EnterRemove(n) ==
    /\ EnterDeps("RemovePodmanMachine")
    /\ machineName' = podmanMachineName
    /\ MakeDirs(n)
    /\ pc' = IF n = Len(PodmanDirs) THEN "remove stop" ELSE "return"
    /\ ret' = IF n = Len(PodmanDirs) THEN NoError ELSE IOError
    /\ WorldUnchanged
    /\ UNCHANGED <<calls, run, tpl, vm, zip, baseDir, builds>>

\* a client calls RemovePodmanMachine
RemovePodmanMachine ==
    /\ pc = "idle"
    /\ CallsLeft
    /\ \E n \in 0..Len(PodmanDirs) : EnterRemove(n)
    /\ UNCHANGED un

\* RemovePodmanMachine: StopPodmanMachine with a nil logWriter
RemoveStop ==
    /\ pc = "remove stop"
    /\ \E o \in Podman("stop") :
          LET r == RunCommand(Opts(machineStartTimeout, logWriter), podmanPath,
                              ArgsOf("stop"), o.beh)
              stopErr == StopPodmanMachine(r)
          IN  /\ SetWorld(o.world)
              /\ Logged("stop", podmanEnvOf(baseDir), machineStartTimeout, o.beh)
              /\ ret' = stopErr
              /\ pc' = IF stopErr.kind # "nil" THEN "return" ELSE "remove rm"
    /\ UNCHANGED <<op, calls, run, dirs, tpl, vm, un, zip, baseDir, podmanPath, machineName,
                   podmanEnv, err,
                   retry, steps, failed, builds>>

\* RemovePodmanMachine's result for the behaviour of `machine rm -f`
RemoveResult(r) ==
    IF r.err.kind = "nil" \/ machineMissing(r.err, r.result) THEN NoError
    ELSE Wrap("podman machine rm", r.err)

\* RemovePodmanMachine: `machine rm -f <name>`; the connection cleanup follows a
\* removal that succeeded
RemoveMachine ==
    /\ pc = "remove rm"
    /\ \E o \in Podman("machine rm") :
          LET r == RunCommand(Opts(machineStartTimeout, logWriter), podmanPath,
                              ArgsOf("machine rm"), o.beh)
          IN  /\ SetWorld(o.world)
              /\ Logged("machine rm", podmanEnvOf(baseDir), machineStartTimeout, o.beh)
              /\ ret' = RemoveResult(r)
              /\ pc' = IF r.err.kind = "nil" THEN "rm" ELSE "return"
    /\ UNCHANGED <<op, calls, run, dirs, tpl, vm, un, zip, baseDir, podmanPath, machineName,
                   podmanEnv, err,
                   retry, steps, failed, builds>>

\* the host put no fault in the way of the call in progress: its directories
\* could be made and none of its commands met a fault
NoFault ==
    /\ ~(log = <<>> /\ pc = "return")
    /\ \A i \in DOMAIN log : log[i].beh \notin Faults

\* the call of EnsurePodmanMachine or RemovePodmanMachine returns to the client
Return ==
    /\ pc = "return"
    /\ pc' = "idle"
    /\ ret' = IF op = "EnsurePodmanMachine" THEN err ELSE ret
    /\ calls' = Append(calls, [op |-> op, ok |-> ret'.kind = "nil", machine |-> machine,
                                isDefault |-> isDefault, builds |-> builds,
                                clean |-> NoFault])
    /\ WorldUnchanged
    /\ UNCHANGED <<op, run, dirs, tpl, vm, un, zip, baseDir, podmanPath, machineName,
                   podmanEnv, err, retry,
                   log, steps, failed, builds>>

\* a client calls builder.Build
BuildCalled == CallsLeft /\ (BuildStart \/ BuildLoggerFails)

InitDeps ==
    /\ Init
    /\ baseDir = <<"C:/work/">>

NextDeps ==
    \/ BuildCalled
    \/ EnsurePodmanMachine
    \/ RemovePodmanMachine
    \/ RemoveStop
    \/ RemoveMachine
    \/ Return
    \/ EnsureBaseLayout
    \/ EnsureTemplates
    \/ EnsurePodman
    \/ BeginEnsureMachine
    \/ InspectMachine
    \/ CleanupConnection
    \/ CleanupRootConnection
    \/ InitMachine
    \/ MachineState
    \/ StartMachine
    \/ DefaultConnection
    \/ Pull
    \/ RemoveOldISO
    \/ PodmanRun
    \/ DeferredStop

SpecDeps == InitDeps /\ [][NextDeps]_vars

----------------------------------------------------------------------------
(* sysutil.RunCommand called once, with any options and any behaviour of   *)
(* the command                                                             *)

\* a positive timeout, and the pace of a process that writes as it goes
SomeTimeout == 5
Pace == 2

RunTimeouts == {0, SomeTimeout}

RunBehaviours ==
    [launch : BOOLEAN,
     oserr : {<<"exec: file", "does not exist">>},
     dur : {Quick, SomeTimeout - Quick, Hang},
     code : {0, 1},
     stdout : {<<>>, <<"o1", "o2", "o3">>},
     stderr : {<<>>, <<"e1">>},
     pace : {0, Pace},
     lag : {0, Quick + Quick},
     logTime : {0, Quick + Quick},
     outFail : {0, 2},
     errFail : {0, 1}]

InitRun ==
    /\ run \in [state : {"call"},
                 opts : [Timeout : RunTimeouts, Stdout : BOOLEAN, Stderr : BOOLEAN,
                         Logger : BOOLEAN],
                 name : {<<>>, <<"podman.exe">>},
                 args : {Words(<<"machine", "stop">>)},
                 beh : RunBehaviours]
    /\ baseDir = <<"C:/work/">>
    /\ machine = "absent"
    /\ conns = {}
    /\ isDefault = FALSE
    /\ faults = 0
    /\ iso = 0
    /\ pc = "idle"
    /\ podmanPath = <<>>
    /\ machineName = <<>>
    /\ podmanEnv = <<>>
    /\ err = NoError
    /\ retry = FALSE
    /\ log = <<>>
    /\ steps = <<>>
    /\ failed = ""
    /\ builds = 0
    /\ ret = NoError
    /\ op = "RunCommand"
    /\ calls = <<>>
    /\ dirs = {}
    /\ tpl = NoTemplates
    /\ vm = NoTest
    /\ zip = NoExtract
    /\ un = NoUninstall

\* the call returns: res is what RunCommand returned, sinks what the duplicate
\* sinks were written
RunCommandCalled ==
    /\ run.state = "call"
    /\ LET r == RunCommand(run.opts, run.name, run.args, run.beh) IN
       run' = [state |-> "returned", opts |-> run.opts, name |-> run.name,
               args |-> run.args, beh |-> run.beh, res |-> r.result, err |-> r.err,
               sinks |-> r.sinks, notes |-> r.notes, started |-> r.started]
    /\ WorldUnchanged
    /\ UNCHANGED <<op, calls, dirs, tpl, vm, un, zip, baseDir, pc, podmanPath, machineName,
                   podmanEnv, err,
                   retry, log, steps, failed, builds, ret>>

NextRun == RunCommandCalled

SpecRun == InitRun /\ [][NextRun]_vars

----------------------------------------------------------------------------
(* The `test` command: run, stripGlobalFlags and runTest of package main,   *)
(* then vmtest.Run, for one command line                                    *)

\* vmRunTimeout: 30 minutes, in seconds
vmRunTimeout == 1800

\* extra arguments given after `--`
MaxExtra == 2

\* args without the global flags: `-q` and `--quiet` are dropped wherever they are
stripGlobalFlags(args) == SelectSeq(args, LAMBDA a : a \notin {<<"-q">>, <<"--quiet">>})

\* an argument that begins with '-' and is longer than one character
FlagLike(a) == a \in {<<"-q">>, <<"--quiet">>, <<"-snapshot">>, <<"--vm">>, <<"--">>}

\* flag.FlagSet.Parse for the set with the one string flag `vm`: the flags end at
\* `--` (which is dropped) or before the first argument that is not a flag
RECURSIVE flagParse(_, _)
flagParse(args, vmPath) ==
    IF args = <<>> \/ ~FlagLike(Head(args))
    THEN [err |-> NoError, vm |-> vmPath, rest |-> args]
    ELSE IF Head(args) = <<"--">>
    THEN [err |-> NoError, vm |-> vmPath, rest |-> Tail(args)]
    ELSE IF Head(args) = <<"--vm">>
    THEN IF Tail(args) = <<>>
         THEN [err |-> [kind |-> "usage", msg |-> <<"flag needs an argument:", "-vm">>],
               vm |-> vmPath, rest |-> <<>>]
         ELSE flagParse(Tail(Tail(args)), Head(Tail(args)))
    ELSE [err |-> [kind |-> "usage", msg |-> <<"flag provided but not defined:">> \o Head(args)],
          vm |-> vmPath, rest |-> Tail(args)]

\* filepath.Join(baseDir, "images/cloud-init.iso") and the like
isoPathOf(dir) == dir \o <<"images/cloud-init.iso">>
qcowPathOf(dir) == dir \o <<"images/velocloud.qcow2">>
tempDirOf(dir) == dir \o <<"runtime/vm/">>

\* the clone's name carries the time of the run, to the second
clonePathOf(dir) == tempDirOf(dir) \o <<"velocloud-", "20060102-150405", ".qcow2">>

\* deps.EnsureQEMU's result: the executable found under <baseDir>/tools/qemu
qemuExeOf(dir) == dir \o <<"tools/qemu/", "qemu-system-x86_64.exe">>

\* filepath.Abs: a relative path is joined to the working directory
IsAbs(path) == path # <<>> /\ Head(path) \in {"C:/work/", "C:/vm/"}
Abs(path, cwd) == IF IsAbs(path) THEN path ELSE cwd \o path

\* filepath.Base: the last element of the path
Base(path) == IF path = <<>> THEN <<".">> ELSE <<path[Len(path)]>>

\* strings.HasPrefix(s, "qemu-system")
HasPrefixQemuSystem(s) == s # <<>> /\ Head(s) \in {"qemu-system-x86_64.exe"}

\* a test of the name's beginning alone
looksLikeQEMUByPrefix(path) == HasPrefixQemuSystem(ToLower(Base(path)))

looksLikeQEMU(path) ==
    LET base == ToLower(Base(path)) IN
    HasPrefixQemuSystem(base) \/ Contains(base, "qemu")

\* an environment variable that is not set
Unset == <<"(unset)">>

\* os.Getenv: the value, "" for a variable that is not set
Getenv(env) == IF env = Unset THEN <<>> ELSE env

\* a version that tests the trimmed value and returns the value as it is
defaultAccelUntrimmed(env) ==
    IF TrimSpace(Getenv(env)) # <<>> THEN Getenv(env) ELSE <<"tcg">>

\* defaultAccel: CLOUDINIT_BUILDER_QEMU_ACCEL trimmed, "tcg" when that is empty
defaultAccel(env) ==
    LET v == TrimSpace(Getenv(env)) IN IF v # <<>> THEN v ELSE <<"tcg">>

defaultQEMUArgs(diskPath, isoPath, env) ==
    Words(<<"-name", "cloudinit-builder-test,process=cloudinit-builder-test",
            "-m", "4096", "-smp", "2", "-drive">>)
        \o << <<"if=virtio,format=qcow2,file=">> \o diskPath >>
        \o Words(<<"-cdrom">>) \o <<isoPath>>
        \o Words(<<"-boot", "d", "-accel">>) \o <<defaultAccel(env)>>
        \o Words(<<"-netdev", "user,id=wan,ipv6=off",
                   "-device", "virtio-net-pci,netdev=wan,mac=52:54:00:00:00:01",
                   "-vga", "std", "-display", "sdl", "-serial", "stdio">>)

\* arguments that hand the base image itself to the VM
vmArgsOnBase(bundled, absVM, disk, isoPath, env, extra) ==
    Words(<<"--disk">>) \o <<qcowPathOf(baseDir)>> \o Words(<<"--cdrom">>) \o <<isoPath>> \o extra

\* the arguments of the VM: the template or the --disk/--cdrom convention, then
\* the passthrough arguments
vmArgs(bundled, absVM, disk, isoPath, env, extra) ==
    (IF bundled \/ looksLikeQEMU(absVM)
     THEN defaultQEMUArgs(disk, isoPath, env)
     ELSE Words(<<"--disk">>) \o <<disk>> \o Words(<<"--cdrom">>) \o <<isoPath>>)
        \o extra

\* a check that lets every path pass
ensureFileAny(status, description, path) == NoError

\* ensureFileExists(path, description), for what os.Stat finds at the path
ensureFileExists(status, description, path) ==
    CASE status = "missing" -> [kind |-> "notfound",
                                msg |-> <<description, "not found at">> \o path]
      [] status = "dir" -> [kind |-> "isdir",
                            msg |-> <<description, "points to a directory:">> \o path]
      [] OTHER -> NoError

\* what the VM process can do: end normally, fail, never end, not start, or end
\* normally while a write to the log file fails
VMRuns ==
    { Exit(0, <<"boot ok">>, <<>>),
      Exit(1, <<>>, <<"qemu:", "could not open disk">>),
      [Exit(0, <<>>, <<>>) EXCEPT !.dur = Hang],
      [Exit(0, <<>>, <<>>) EXCEPT !.launch = FALSE, !.oserr = <<"Access is denied.">>],
      [Exit(0, <<"boot ok">>, <<>>) EXCEPT !.outFail = 1] }

\* the command returns e
TestReturns(v, e) == [v EXCEPT !.pc = "done", !.ret = e]

\* a file operation of the command, or the start of the VM, is recorded
Touched(v, kind, path) == [v EXCEPT !.events = Append(v.events, [op |-> kind, path |-> path])]

\* the variables the `test` command leaves alone
OutsideTest ==
    <<baseDir, machine, conns, isDefault, faults, iso, pc, podmanPath, machineName, podmanEnv,
      err, retry, log, steps, failed, builds, ret, op, calls, dirs, run, tpl, zip, un>>

\* run: the global flags are stripped, `test` dispatches to runTest, which parses
\* its flags and calls vmtest.Run; Run creates its operation logger
TestCommand ==
    /\ vm.pc = "idle"
    /\ LET args == stripGlobalFlags(vm.argv)
           parsed == flagParse(Tail(args), <<>>)
           v == [vm EXCEPT !.quiet = args # vm.argv]
       IN  /\ args # <<>> /\ Head(args) = <<"test">>
           /\ IF parsed.err.kind # "nil"
              THEN vm' = TestReturns(v, parsed.err)
              ELSE \E ok \in BOOLEAN :
                     vm' = IF ok
                           THEN [v EXCEPT !.pc = "exe", !.vmPath = parsed.vm,
                                          !.extra = parsed.rest]
                           ELSE TestReturns(v, IOError)
    /\ UNCHANGED OutsideTest

\* the VM executable: deps.EnsureQEMU when no path is given, else the path made
\* absolute and checked
VerifyExecutable ==
    /\ vm.pc = "exe"
    /\ IF vm.vmPath = <<>>
       THEN \E ok \in BOOLEAN :
              vm' = IF ok
                    THEN [vm EXCEPT !.pc = "iso", !.bundled = TRUE,
                                    !.absVM = qemuExeOf(baseDir)]
                    ELSE TestReturns(vm, Wrap("ensure qemu", IOError))
       ELSE LET abs == Abs(vm.vmPath, baseDir)
                e == ensureFileExists(vm.exe, "VM executable", abs)
                v == Touched(vm, "stat", abs)
            IN  vm' = IF e.kind = "nil"
                      THEN [v EXCEPT !.pc = "iso", !.absVM = abs]
                      ELSE TestReturns([v EXCEPT !.absVM = abs], e)
    /\ UNCHANGED OutsideTest

\* the generated ISO
VerifyISO ==
    /\ vm.pc = "iso"
    /\ LET e == ensureFileExists(IF iso = 0 THEN "missing" ELSE "file", "cloud-init ISO",
                                 isoPathOf(baseDir))
           v == Touched(vm, "stat", isoPathOf(baseDir))
       IN  vm' = IF e.kind = "nil" THEN [v EXCEPT !.pc = "qcow"] ELSE TestReturns(v, e)
    /\ UNCHANGED OutsideTest

\* the base disk image
VerifyBaseImage ==
    /\ vm.pc = "qcow"
    /\ LET e == ensureFileExists(vm.qcow, "velocloud qcow2 image", qcowPathOf(baseDir))
           v == Touched(vm, "stat", qcowPathOf(baseDir))
       IN  vm' = IF e.kind = "nil" THEN [v EXCEPT !.pc = "dir"] ELSE TestReturns(v, e)
    /\ UNCHANGED OutsideTest

\* fsutil.EnsureDir(<baseDir>/runtime/vm)
PrepareRuntimeDir ==
    /\ vm.pc = "dir"
    /\ \E ok \in BOOLEAN :
          vm' = IF ok
                THEN [Touched(vm, "mkdir", tempDirOf(baseDir)) EXCEPT !.pc = "clone"]
                ELSE TestReturns(vm, Wrap("prepare vm runtime dir", IOError))
    /\ UNCHANGED OutsideTest

\* what a failing step of fsutil.CopyFile returns
CopyError == [kind |-> "io", msg |-> <<"write: there is not enough space on the disk">>]

\* fsutil.CopyFile(qcowPath, clonePath): the source cannot be opened, the clone
\* cannot be created, the copy fails after the clone was created, or all is
\* copied.  The removal of the clone is deferred after a copy that succeeded.
CloneBaseImage ==
    /\ vm.pc = "clone"
    /\ LET src == qcowPathOf(baseDir)
           dest == clonePathOf(baseDir)
           opened == Touched(vm, "read", src)
           created == Touched(opened, "write", dest)
       IN  \E outcome \in {"no source", "no clone", "partial", "copied"} :
              vm' = CASE outcome = "no source" ->
                           TestReturns(Touched(vm, "stat", src), Wrap("clone qcow2", CopyError))
                      [] outcome = "no clone" ->
                           TestReturns(opened, Wrap("clone qcow2", CopyError))
                      [] outcome = "partial" ->
                           TestReturns([created EXCEPT !.clone = "partial"],
                                       Wrap("clone qcow2", CopyError))
                      [] outcome = "copied" ->
                           [created EXCEPT !.clone = "complete", !.pc = "launch"]
    /\ UNCHANGED OutsideTest

\* sysutil.RunCommand(absVM, args...) with the log file as Stdout and Stderr
LaunchVM ==
    /\ vm.pc = "launch"
    /\ \E beh \in VMRuns :
          LET args == vmArgs(vm.bundled, vm.absVM, clonePathOf(baseDir), isoPathOf(baseDir),
                             vm.accel, vm.extra)
              r == RunCommand(Opts(vmRunTimeout, TRUE), vm.absVM, args, beh)
              v == [Touched(vm, "exec", vm.absVM) EXCEPT
                        !.launch = <<[name |-> vm.absVM, args |-> args, beh |-> beh]>>,
                        !.pc = "cleanup"]
          IN  vm' = [v EXCEPT !.ret = IF r.err.kind = "nil" THEN NoError
                                      ELSE Wrap("vm execution failed", r.err)]
    /\ UNCHANGED OutsideTest

\* the deferred fsutil.RemoveIfExists(clonePath): a failure is a warning on
\* standard error; Run returns what it was returning
RemoveClone ==
    /\ vm.pc = "cleanup"
    /\ \E ok \in BOOLEAN :
          vm' = [Touched(vm, "delete", clonePathOf(baseDir)) EXCEPT
                     !.clone = IF ok THEN "absent" ELSE vm.clone,
                     !.warned = ~ok,
                     !.pc = "done"]
    /\ UNCHANGED OutsideTest

\* the paths given with --vm, and what os.Stat finds at a path
VMPaths ==
    { <<"C:/vm/", "QEMU-System-x86_64.exe">>,
      <<"C:/vm/", "MyQemu.exe">>,
      <<"qemu/", "vbox.exe">> }

FileStates == {"file", "missing", "dir"}

ExtraArgs == {<<"-q">>, <<"--quiet">>, <<"-snapshot">>}

ExtraLists == UNION {[1..n -> ExtraArgs] : n \in 0..MaxExtra}

\* cloudinit-builder [-q] test [--vm <path>] [-- <extra-args>]
TestLines ==
    { q \o <<<<"test">>>> \o v \o x :
        q \in {<<>>, <<<<"-q">>>>},
        v \in {<<>>} \cup {<<<<"--vm">>, p>> : p \in VMPaths},
        x \in {<<>>} \cup {<<<<"--">>>> \o e : e \in ExtraLists} }

\* the values of CLOUDINIT_BUILDER_QEMU_ACCEL
AccelEnvs == {Unset, <<>>, <<"sp", "tab">>, <<"sp", "whpx", "nl">>}

InitTest ==
    /\ vm \in [pc : {"idle"}, argv : TestLines, accel : AccelEnvs, exe : FileStates,
                qcow : FileStates, quiet : {FALSE}, vmPath : {<<>>}, extra : {<<>>},
                bundled : {FALSE}, absVM : {<<>>}, clone : {"absent"}, warned : {FALSE},
                events : {<<>>}, launch : {<<>>}, ret : {NoError}]
    /\ iso \in {0, 1}
    /\ baseDir = <<"C:/work/">>
    /\ machine = "absent"
    /\ conns = {}
    /\ isDefault = FALSE
    /\ faults = 0
    /\ pc = "idle"
    /\ podmanPath = <<>>
    /\ machineName = <<>>
    /\ podmanEnv = <<>>
    /\ err = NoError
    /\ retry = FALSE
    /\ log = <<>>
    /\ steps = <<>>
    /\ failed = ""
    /\ builds = 0
    /\ ret = NoError
    /\ op = "test"
    /\ calls = <<>>
    /\ dirs = {}
    /\ run = NoRun
    /\ tpl = NoTemplates
    /\ zip = NoExtract
    /\ un = NoUninstall

NextTest ==
    \/ TestCommand
    \/ VerifyExecutable
    \/ VerifyISO
    \/ VerifyBaseImage
    \/ PrepareRuntimeDir
    \/ CloneBaseImage
    \/ LaunchVM
    \/ RemoveClone

SpecTest == InitTest /\ [][NextTest]_vars

----------------------------------------------------------------------------
(* deps.EnsureTemplates called again and again, the user editing the        *)
(* templates between the calls                                              *)

\* what a template file can hold: nothing (it does not exist), the default, a
\* text of the user's, no text at all
TemplateTexts(default) ==
    {Absent, default, <<"#cloud-config", "hostname: edge1">>, <<>>}

\* a client calls deps.EnsureTemplates(baseDir, logger)
TemplatesCalled ==
    /\ pc = "idle"
    /\ CallsLeft
    /\ pc' = "templates"
    /\ op' = "EnsureTemplates"
    /\ steps' = <<>>
    /\ WorldUnchanged
    /\ UNCHANGED <<baseDir, zip, podmanPath, machineName, podmanEnv, err, retry, log, failed,
                   builds,
                   ret, calls, dirs, run, tpl, vm, un>>

\* the user writes, empties or deletes a template file
UserEdits ==
    /\ pc = "idle"
    /\ \/ \E c \in TemplateTexts(defaultUserData) :
             c # tpl.userData /\ tpl' = [tpl EXCEPT !.userData = c]
       \/ \E c \in TemplateTexts(defaultMetaData) :
             c # tpl.metaData /\ tpl' = [tpl EXCEPT !.metaData = c]
    /\ WorldUnchanged
    /\ UNCHANGED <<baseDir, zip, pc, podmanPath, machineName, podmanEnv, err, retry, log, steps,
                   failed, builds, ret, op, calls, dirs, run, vm, un>>

InitTemplates ==
    /\ tpl \in [userData : TemplateTexts(defaultUserData),
                 metaData : TemplateTexts(defaultMetaData)]
    /\ baseDir = <<"C:/work/">>
    /\ machine = "absent"
    /\ conns = {}
    /\ isDefault = FALSE
    /\ faults = 0
    /\ iso = 0
    /\ pc = "idle"
    /\ podmanPath = <<>>
    /\ machineName = <<>>
    /\ podmanEnv = <<>>
    /\ err = NoError
    /\ retry = FALSE
    /\ log = <<>>
    /\ steps = <<>>
    /\ failed = ""
    /\ builds = 0
    /\ ret = NoError
    /\ op = "EnsureTemplates"
    /\ calls = <<>>
    /\ dirs = {}
    /\ run = NoRun
    /\ vm = NoTest
    /\ zip = NoExtract
    /\ un = NoUninstall

NextTemplates ==
    \/ TemplatesCalled
    \/ EnsureTemplates
    \/ UserEdits

SpecTemplates == InitTemplates /\ [][NextTemplates]_vars

----------------------------------------------------------------------------
(* The `uninstall` command: runUninstall of package main and                *)
(* deps.PerformUninstall, for one command line                              *)

\* the directories of the layout under baseDir
LayoutDirs == {"tools", "images", "runtime", "cache", "templates", "logs"}

\* a list of targets without the cache
uninstallTargetsShort == <<"tools", "images", "runtime", "templates">>

\* PerformUninstall's targets, in its order
uninstallTargets == <<"tools", "images", "runtime", "cache", "templates">>

\* the timeouts of taskkill and of the cleanup script's launch, in seconds
killTimeout == 5
selfDeleteTimeout == 2

\* RunOptions without sinks and without logger
BareOpts(timeout) == [Timeout |-> timeout, Stdout |-> FALSE, Stderr |-> FALSE, Logger |-> FALSE]

\* what taskkill can do: kill the process, find none (exit 128), be refused, not start
KillRuns ==
    { Exit(0, <<"SUCCESS">>, <<>>),
      Exit(128, <<>>, <<"ERROR:", "Not Found">>),
      Exit(1, <<>>, <<"ERROR:", "Access is denied.">>),
      [Exit(0, <<>>, <<>>) EXCEPT !.launch = FALSE, !.oserr = <<"Access is denied.">>] }

\* killProcesses, for one process name: the warning it logs, if any
killWarns(name, beh) ==
    LET r == RunCommand([BareOpts(killTimeout) EXCEPT !.Logger = TRUE], <<"taskkill">>,
                        Words(<<"/IM", name, "/T", "/F">>), beh)
    IN  r.err.kind # "nil" /\ ~(~r.result.nil /\ r.result.ExitCode = 128)

Warned(u, w) == [u EXCEPT !.warnings = Append(u.warnings, w)]

UninstallReturns(u, e) == [u EXCEPT !.pc = "done", !.ret = e]

\* the variables of the machine lifecycle and of the other commands
LifecycleVars ==
    <<podmanPath, machineName, podmanEnv, err, retry, log, steps, failed, builds, ret, op, calls>>

\* what runUninstall takes as the path of the executable: os.Executable made
\* absolute, <baseDir>/cloudinit-builder.exe when os.Executable fails, "" when
\* filepath.Abs fails
BinaryPaths(dir) == {<<"C:/bin/", "cloudinit-builder.exe">>, dir \o <<"cloudinit-builder.exe">>, <<>>}

\* a check that takes any path
binaryUnknownNever(path) == FALSE

\* `if binaryPath == ""`
binaryUnknown(path) == path = <<>>

\* runUninstall: the flags are parsed and the operation logger is created, which
\* makes logs/ and the log file; the path of the executable is taken
UninstallCommand ==
    /\ un.pc = "idle"
    /\ \E ok \in BOOLEAN, bin \in BinaryPaths(baseDir) :
          un' = IF ok
                THEN [un EXCEPT !.pc = "kill", !.present = un.present \cup {"logs"},
                                !.selfDelete = <<"--self-delete">> \in {un.args[i] : i \in DOMAIN un.args},
                                !.binary = bin]
                ELSE UninstallReturns(un, IOError)
    /\ WorldUnchanged
    /\ UNCHANGED <<baseDir, zip, pc, dirs, run, tpl, vm>>
    /\ UNCHANGED LifecycleVars

\* PerformUninstall: killProcesses for podman.exe and qemu-system-x86_64.exe; a
\* failure is a warning
KillProcesses ==
    /\ un.pc = "kill"
    /\ \E b1, b2 \in KillRuns :
          un' = [(IF killWarns("podman.exe", b1) \/ killWarns("qemu-system-x86_64.exe", b2)
                  THEN Warned(un, "failed to terminate some helper processes")
                  ELSE un)
                 EXCEPT !.pc = "machine"]
    /\ WorldUnchanged
    /\ UNCHANGED <<baseDir, zip, pc, dirs, run, tpl, vm>>
    /\ UNCHANGED LifecycleVars

\* PerformUninstall: with tools/podman/podman.exe there, RemovePodmanMachine is
\* called; without it the targets come next
UninstallMachine ==
    /\ un.pc = "machine"
    /\ pc = "idle"
    /\ IF un.exe
       THEN \E n \in 0..Len(PodmanDirs) :
              /\ EnterRemove(n)
              /\ un' = [un EXCEPT !.pc = "removing",
                                  !.present = IF n > 0 THEN un.present \cup {"runtime"}
                                              ELSE un.present,
                                  !.events = Append(un.events, "RemovePodmanMachine")]
       ELSE /\ un' = [un EXCEPT !.pc = "targets"]
            /\ WorldUnchanged
            /\ UNCHANGED <<baseDir, zip, pc, dirs, run, tpl, vm>>
            /\ UNCHANGED LifecycleVars

\* RemovePodmanMachine has returned: its error is a warning
MachineRemoved ==
    /\ un.pc = "removing"
    /\ pc = "idle"
    /\ un' = [(IF ret.kind # "nil" THEN Warned(un, "failed to remove podman machine") ELSE un)
              EXCEPT !.pc = "targets"]
    /\ WorldUnchanged
    /\ UNCHANGED <<baseDir, zip, pc, dirs, run, tpl, vm>>
    /\ UNCHANGED LifecycleVars

\* PerformUninstall's loop, one target: fsutil.RemoveIfExists; its failure ends
\* the command with "remove <path>: ..."
RemoveTarget ==
    /\ un.pc = "targets"
    /\ LET t == uninstallTargets[un.next]
           last == un.next = Len(uninstallTargets)
       IN  \E ok \in BOOLEAN :
              IF ok
              THEN /\ un' = [un EXCEPT !.present = un.present \ {t},
                                       !.exe = un.exe /\ t # "tools",
                                       !.events = Append(un.events, t),
                                       !.next = IF last THEN un.next ELSE un.next + 1,
                                       !.pc = IF ~last THEN "targets"
                                              ELSE IF un.selfDelete THEN "self" ELSE "close"]
                   /\ dirs' = IF t = "runtime" THEN {} ELSE dirs
              ELSE /\ un' = UninstallReturns(un, Wrap("remove", [kind |-> "io",
                                                      msg |-> baseDir \o <<t, "access is denied">>]))
                   /\ UNCHANGED dirs
    /\ WorldUnchanged
    /\ UNCHANGED <<baseDir, zip, pc, run, tpl, vm>>
    /\ UNCHANGED LifecycleVars

\* PerformUninstall with selfDelete after its loop: without a binary path it
\* returns an error; else scheduleSelfDelete writes the script and starts it
\* with cmd.exe
SelfDelete ==
    /\ un.pc = "self"
    /\ \E written \in BOOLEAN, beh \in KillRuns :
          LET r == RunCommand(BareOpts(selfDeleteTimeout), <<"cmd.exe">>,
                              Words(<<"/C", "start">>) \o <<<<>>>> \o Words(<<"cleanup.bat">>), beh)
              scripted == [un EXCEPT !.events = un.events \o <<"script", "cmd.exe">>]
          IN  un' = IF binaryUnknown(un.binary)
                    THEN UninstallReturns(un, [kind |-> "invalid",
                              msg |-> <<"cannot self-delete: binary path unknown">>])
                    ELSE IF ~written THEN UninstallReturns(un, IOError)
                    ELSE IF r.err.kind # "nil"
                    THEN UninstallReturns(scripted, Wrap("launch cleanup script", r.err))
                    ELSE [scripted EXCEPT !.pc = "close"]
    /\ WorldUnchanged
    /\ UNCHANGED <<baseDir, zip, pc, dirs, run, tpl, vm>>
    /\ UNCHANGED LifecycleVars

\* runUninstall after PerformUninstall: the log file is closed and logs/ removed
RemoveLogs ==
    /\ un.pc = "close"
    /\ \E closed, removed \in BOOLEAN :
          un' = IF ~closed
                THEN UninstallReturns(un, Wrap("close log file", IOError))
                ELSE IF ~removed
                THEN UninstallReturns(un, Wrap("remove logs directory", IOError))
                ELSE UninstallReturns([un EXCEPT !.present = un.present \ {"logs"},
                                                 !.events = Append(un.events, "logs")],
                                      NoError)
    /\ WorldUnchanged
    /\ UNCHANGED <<baseDir, zip, pc, dirs, run, tpl, vm>>
    /\ UNCHANGED LifecycleVars

\* what is under baseDir when the command is given
Layouts == { LayoutDirs, {"tools", "logs"}, {"images"} }

InitUninstall ==
    /\ \E d \in Layouts, x \in BOOLEAN, a \in {<<>>, <<<<"--self-delete">>>>} :
          /\ x => "tools" \in d
          /\ un = [pc |-> "idle", args |-> a, selfDelete |-> FALSE, present |-> d, exe |-> x,
                   hadExe |-> x, next |-> 1, events |-> <<>>, warnings |-> <<>>,
                   ret |-> NoError, binary |-> <<>>]
          /\ dirs = IF "runtime" \in d THEN {PodmanDirs[k] : k \in DOMAIN PodmanDirs} ELSE {}
    /\ machine \in {"absent", "stopped", "running"}
    /\ conns = IF machine = "absent" THEN {} ELSE {"name", "root"}
    /\ isDefault = (machine # "absent")
    /\ baseDir = <<"C:/work/">>
    /\ faults = 0
    /\ iso = 0
    /\ pc = "idle"
    /\ podmanPath = <<>>
    /\ machineName = <<>>
    /\ podmanEnv = <<>>
    /\ err = NoError
    /\ retry = FALSE
    /\ log = <<>>
    /\ steps = <<>>
    /\ failed = ""
    /\ builds = 0
    /\ ret = NoError
    /\ op = "uninstall"
    /\ calls = <<>>
    /\ run = NoRun
    /\ tpl = NoTemplates
    /\ vm = NoTest
    /\ zip = NoExtract

NextUninstall ==
    \/ UninstallCommand
    \/ KillProcesses
    \/ UninstallMachine
    \/ RemoveStop
    \/ RemoveMachine
    \/ CleanupConnection
    \/ CleanupRootConnection
    \/ Return
    \/ MachineRemoved
    \/ RemoveTarget
    \/ SelfDelete
    \/ RemoveLogs

SpecUninstall == InitUninstall /\ [][NextUninstall]_vars

----------------------------------------------------------------------------
(* commandString applied to any command name and arguments                  *)

\* the number of arguments
MaxArgs == 2

\* texts with and without the characters shellQuote looks for
QuoteWords ==
    { <<>>,
      <<"podman">>,
      <<"C:/Program", "sp", "Files/podman.exe">>,
      <<"a", "tab", "b">>,
      <<"line1", "nl", "line2">>,
      <<"say", "sp", "dq", "hi", "dq">>,
      <<"dq">>,
      <<"C:", "bs", "tools">> }

ArgLists == UNION {[1..n -> QuoteWords] : n \in 0..MaxArgs}

InitQuote ==
    \* RunCommand has returned before for an empty name
    /\ run \in [state : {"words"}, name : QuoteWords \ {<<>>}, args : ArgLists]
    /\ baseDir = <<"C:/work/">>
    /\ machine = "absent"
    /\ conns = {}
    /\ isDefault = FALSE
    /\ faults = 0
    /\ iso = 0
    /\ pc = "idle"
    /\ podmanPath = <<>>
    /\ machineName = <<>>
    /\ podmanEnv = <<>>
    /\ err = NoError
    /\ retry = FALSE
    /\ log = <<>>
    /\ steps = <<>>
    /\ failed = ""
    /\ builds = 0
    /\ ret = NoError
    /\ op = "commandString"
    /\ calls = <<>>
    /\ dirs = {}
    /\ tpl = NoTemplates
    /\ vm = NoTest
    /\ zip = NoExtract
    /\ un = NoUninstall

\* commandString(name, args) returns
commandStringCalled ==
    /\ run.state = "words"
    /\ run' = [state |-> "joined", name |-> run.name, args |-> run.args,
               out |-> commandString(run.name, run.args)]
    /\ WorldUnchanged
    /\ UNCHANGED <<op, calls, dirs, tpl, vm, un, zip, baseDir, pc, podmanPath, machineName,
                   podmanEnv,
                   err, retry, log, steps, failed, builds, ret>>

NextQuote == commandStringCalled

SpecQuote == InitQuote /\ [][NextQuote]_vars

----------------------------------------------------------------------------
(* deps.extractZip, for one archive. A path is the sequence of its elements  *)
(* and an element the sequence of its pieces: "podman-evil" is              *)
(* <<"podman", "-evil">>                                                    *)

MaxEntries == 2

\* filepath.Clean of a rooted path: "." and empty elements are dropped, ".."
\* takes the element before it away, the volume excepted
RECURSIVE cleanFrom(_, _)
cleanFrom(done, rest) ==
    IF rest = <<>> THEN done
    ELSE LET h == Head(rest) IN
         IF h = <<".">> \/ h = <<>> THEN cleanFrom(done, Tail(rest))
         ELSE IF h = <<"..">>
         THEN cleanFrom(IF Len(done) > 1 THEN SubSeq(done, 1, Len(done) - 1) ELSE done,
                        Tail(rest))
         ELSE cleanFrom(Append(done, h), Tail(rest))

Clean(path) == cleanFrom(<<>>, path)

\* filepath.Join(dest, name)
filepathJoin(dest, name) == Clean(dest \o name)

\* filepath.Dir of a cleaned path
Dir(path) == IF Len(path) > 1 THEN SubSeq(path, 1, Len(path) - 1) ELSE path

\* the path as a string: the pieces of its elements with a separator between
\* the elements
RECURSIVE Str(_)
Str(path) ==
    IF path = <<>> THEN <<>>
    ELSE IF Len(path) = 1 THEN path[1]
    ELSE path[1] \o <<"\\">> \o Str(Tail(path))

\* strings.HasPrefix
HasPrefix(s, prefix) == Len(prefix) <= Len(s) /\ SubSeq(s, 1, Len(prefix)) = prefix

\* the test of extractZip on the target of an entry
unsafePath(dest, name) ==
    ~HasPrefix(Str(Clean(filepathJoin(dest, name))), Str(Clean(dest)))

\* the path and the directories above it
Ancestors(path) == {SubSeq(path, 1, k) : k \in 1..Len(path)}

\* what the host lets the extraction of one entry do
EntryOutcomes == {"ok", "no mkdir", "no open", "no create", "no write"}

\* the loop body of extractZip for the entry e: the paths it makes and its error
extractEntry(z, e, outcome) ==
    LET targetPath == filepathJoin(z.dest, e.name)
        dirPath == IF e.dir THEN targetPath ELSE Dir(targetPath)
        newDirs == Ancestors(dirPath) \ z.exist
    IN  IF unsafePath(z.dest, e.name)
        THEN [made |-> {}, err |-> [kind |-> "unsafe",
                                    msg |-> <<"unsafe path in archive:">> \o Str(e.name)]]
        ELSE IF outcome = "no mkdir" THEN [made |-> {}, err |-> IOError]
        ELSE IF e.dir THEN [made |-> newDirs, err |-> NoError]
        ELSE IF outcome \in {"no open", "no create"} THEN [made |-> newDirs, err |-> IOError]
        \* os.OpenFile has made the file when io.Copy fails
        ELSE IF outcome = "no write"
        THEN [made |-> newDirs \cup {targetPath}, err |-> CopyError]
        ELSE [made |-> newDirs \cup {targetPath}, err |-> NoError]

\* the variables the extraction leaves alone
OutsideExtract ==
    <<baseDir, machine, conns, isDefault, faults, iso, pc, podmanPath, machineName, podmanEnv,
      err, retry, log, steps, failed, builds, ret, op, calls, dirs, run, tpl, vm, un>>

\* zip.OpenReader(zipPath): the archive is opened, or extractZip returns the
\* error; an archive without entries is done at once
OpenArchive ==
    /\ zip.pc = "call"
    /\ \E ok \in BOOLEAN :
          zip' = IF ~ok THEN [zip EXCEPT !.pc = "done", !.ret = IOError]
                 ELSE IF zip.files = <<>> THEN [zip EXCEPT !.pc = "done", !.ret = NoError]
                 ELSE [zip EXCEPT !.pc = "loop", !.next = 1]
    /\ UNCHANGED OutsideExtract

\* one turn of the loop over reader.File; extractZip returns at the first error
\* and after the last entry
ExtractEntry ==
    /\ zip.pc = "loop"
    /\ \E outcome \in EntryOutcomes :
          LET r == extractEntry(zip, zip.files[zip.next], outcome)
              last == zip.next = Len(zip.files)
          IN  zip' = [zip EXCEPT !.made = @ \cup r.made,
                                 !.exist = @ \cup r.made,
                                 !.tried = Append(@, zip.next),
                                 !.next = IF r.err.kind = "nil" /\ ~last THEN @ + 1 ELSE @,
                                 !.pc = IF r.err.kind = "nil" /\ ~last THEN "loop" ELSE "done",
                                 !.ret = r.err]
    /\ UNCHANGED OutsideExtract

\* filepath.Join(baseDir, "tools", "podman") for the base directory C:\work, which
\* EnsurePodman has made before the extraction
podmanDir == << <<"C:">>, <<"work">>, <<"tools">>, <<"podman">> >>

\* the names of the entries of an archive
EntryNames ==
    { << <<"podman.exe">> >>,
      << <<"bin">>, <<"gvproxy.exe">> >>,
      << <<".">>, <<"bin">> >>,
      << <<"..">>, <<"podman">> >>,
      << <<"..">>, <<"..">>, <<"evil.exe">> >>,
      << <<"..">>, <<"podman", "-evil">>, <<"x.exe">> >> }

Entries == [name : EntryNames, dir : BOOLEAN]

Archives == UNION {[1..n -> Entries] : n \in 0..MaxEntries}

InitZip ==
    /\ zip \in [pc : {"call"}, dest : {podmanDir}, files : Archives,
                 next : {0}, tried : {<<>>}, made : {{}},
                 exist : {Ancestors(podmanDir)}, ret : {NoError}]
    /\ baseDir = <<"C:/work/">>
    /\ machine = "absent"
    /\ conns = {}
    /\ isDefault = FALSE
    /\ faults = 0
    /\ iso = 0
    /\ pc = "idle"
    /\ podmanPath = <<>>
    /\ machineName = <<>>
    /\ podmanEnv = <<>>
    /\ err = NoError
    /\ retry = FALSE
    /\ log = <<>>
    /\ steps = <<>>
    /\ failed = ""
    /\ builds = 0
    /\ ret = NoError
    /\ op = "extractZip"
    /\ calls = <<>>
    /\ dirs = {}
    /\ run = NoRun
    /\ tpl = NoTemplates
    /\ vm = NoTest
    /\ un = NoUninstall

NextZip ==
    \/ OpenArchive
    \/ ExtractEntry

SpecZip == InitZip /\ [][NextZip]_vars

----------------------------------------------------------------------------
(* runInteractive of package main: the menu, read from standard input line   *)
(* by line, for the choices that lead to the uninstall or out of the menu    *)

MaxLines == 3

\* reader.ReadString('\n'): the next line with its line feed, "" at the end of
\* the input (the error is dropped)
ReadString(stdin) == IF stdin = <<>> THEN <<>> ELSE Head(stdin) \o <<"nl">>

\* promptYesNo, for the line read
promptYesNo(resp) ==
    LET r == TrimSpace(resp) IN
    IF r = <<>> THEN TRUE ELSE ToLower(r) \in {<<"y">>, <<"yes">>}

\* the variables the menu leaves alone
OutsideMenu ==
    <<baseDir, machine, conns, isDefault, faults, iso, pc, podmanPath, machineName, podmanEnv,
      err, retry, log, steps, failed, builds, ret, op, calls, dirs, run, tpl, vm, zip>>

\* one turn of the loop: the choice is read; 3 asks for the confirmation and
\* calls runUninstall(baseDir, nil) when promptYesNo returns true; 4, q, Q, exit
\* and keluar leave the menu; anything else is not recognised
MenuChoice ==
    /\ un.pc = "menu"
    /\ LET choice == TrimSpace(ReadString(un.stdin))
           rest == IF un.stdin = <<>> THEN <<>> ELSE Tail(un.stdin)
           resp == ReadString(rest)
           after == IF rest = <<>> THEN <<>> ELSE Tail(rest)
       IN  un' = IF choice = <<"3">>
                 THEN [un EXCEPT !.stdin = after,
                                 !.asked = Append(@, [resp |-> resp, ran |-> promptYesNo(resp),
                                                      present |-> un.present]),
                                 !.pc = IF promptYesNo(resp) THEN "idle" ELSE "menu"]
                 ELSE IF choice \in {<<"4">>, <<"q">>, <<"Q">>, <<"exit">>, <<"keluar">>}
                 THEN [un EXCEPT !.stdin = rest, !.pc = "exit"]
                 ELSE [un EXCEPT !.stdin = rest]
    /\ UNCHANGED OutsideMenu

\* runUninstall has returned: its error is printed and the loop goes on
BackToMenu ==
    /\ un.pc = "done"
    /\ un' = [un EXCEPT !.pc = "menu", !.args = <<>>, !.next = 1]
    /\ UNCHANGED OutsideMenu

\* the lines the user types
MenuLines == {<<"3">>, <<"4">>, <<>>, <<"Yes">>, <<"n">>}

MenuInputs == UNION {[1..n -> MenuLines] : n \in 0..MaxLines}

InitMenu ==
    /\ \E x \in BOOLEAN, in \in MenuInputs :
          un = [pc |-> "menu", args |-> <<>>, selfDelete |-> FALSE, present |-> LayoutDirs,
                exe |-> x, hadExe |-> x, next |-> 1, events |-> <<>>, warnings |-> <<>>,
                ret |-> NoError, binary |-> <<>>, stdin |-> in, asked |-> <<>>]
    /\ dirs = {PodmanDirs[k] : k \in DOMAIN PodmanDirs}
    /\ machine \in {"absent", "running"}
    /\ conns = IF machine = "absent" THEN {} ELSE {"name", "root"}
    /\ isDefault = (machine # "absent")
    /\ baseDir = <<"C:/work/">>
    /\ faults = 0
    /\ iso = 0
    /\ pc = "idle"
    /\ podmanPath = <<>>
    /\ machineName = <<>>
    /\ podmanEnv = <<>>
    /\ err = NoError
    /\ retry = FALSE
    /\ log = <<>>
    /\ steps = <<>>
    /\ failed = ""
    /\ builds = 0
    /\ ret = NoError
    /\ op = "menu"
    /\ calls = <<>>
    /\ run = NoRun
    /\ tpl = NoTemplates
    /\ vm = NoTest
    /\ zip = NoExtract

\* runUninstall is called without arguments, so without --self-delete
NextMenu ==
    \/ MenuChoice
    \/ BackToMenu
    \/ UninstallCommand
    \/ KillProcesses
    \/ UninstallMachine
    \/ RemoveStop
    \/ RemoveMachine
    \/ CleanupConnection
    \/ CleanupRootConnection
    \/ Return
    \/ MachineRemoved
    \/ RemoveTarget
    \/ RemoveLogs

SpecMenu == InitMenu /\ [][NextMenu]_vars

----------------------------------------------------------------------------
(* What the claims speak of *)

\* the last Build call has returned; log, steps and failed are still its own
Returned == pc = "idle" /\ builds > 0

CountCmd(c) == Cardinality({i \in DOMAIN log : log[i].cmd = c})

Entered(step) == \E i \in DOMAIN steps : steps[i] = step

BuildSteps == <<"layout", "templates", "podman", "machine", "pull", "remove", "run">>

\* the six contexts Build wraps errors with, each the name of one step
OwnName(step) ==
    CASE step = "layout" -> "ensure base layout"
      [] step = "templates" -> "ensure templates"
      [] step = "podman" -> "ensure podman"
      [] step = "machine" -> "ensure podman machine"
      [] step = "pull" -> "podman pull"
      [] step = "remove" -> "(none)"
      [] step = "run" -> "podman run"

StepFailed == failed \notin {"", "logger"}

----------------------------------------------------------------------------
(* C1 *)

\* C1: when Build returns after `machine init` or `machine start` succeeded in it
\* (EnsurePodmanMachine created or started the machine, whatever it returned
\* afterwards), exactly one `machine stop` has been attempted.
C1_StopAfterMachineStarted ==
    (Returned /\ \E i \in DOMAIN log : log[i].cmd \in {"init", "start"} /\ Succeeded(i))
        => CountCmd("stop") = 1

----------------------------------------------------------------------------
(* C2 *)

\* C2: no `machine stop` is issued while Build's steps are under way, and when
\* Build returns after EnsurePodmanMachine succeeded (the pull was entered), whether
\* the pull failed, the run failed or the build succeeded, exactly one
\* `machine stop` was issued and it is the last command of the build.
C2_DeferredStopOnceAndLast ==
    /\ pc # "idle" => CountCmd("stop") = 0
    /\ (Returned /\ Entered("pull"))
          => CountCmd("stop") = 1 /\ log[Len(log)].cmd = "stop"

\* the pull failed and the stop was issued all the same
C2_Witness == Returned /\ failed = "pull" /\ CountCmd("stop") = 1

----------------------------------------------------------------------------
(* C3 *)

\* C3: Build returns the error of the step that failed, or nil when no step
\* failed, whatever the deferred stop returned.
C3_ResultIgnoresStop ==
    Returned => IF failed = "" THEN ret = NoError
                ELSE ret.kind # "nil" /\ ret = err

\* every step succeeded, the stop failed, Build returned nil
C3_Witness ==
    /\ Returned
    /\ failed = ""
    /\ log # <<>>
    /\ log[Len(log)].cmd = "stop"
    /\ StopPodmanMachine(ResultOf(Len(log))).kind # "nil"
    /\ ret = NoError

----------------------------------------------------------------------------
(* C4 *)

----------------------------------------------------------------------------
(* C5 *)

\* C5: when Build returns the error of a failed step, whichever step it is, no
\* cloud-init.iso written by an earlier build is present.
C5_NoStaleISOAfterFailure ==
    (Returned /\ StepFailed /\ ret.kind # "nil") => ~(iso # 0 /\ iso < builds)

----------------------------------------------------------------------------
(* C6 *)

MissingPatterns == {"no such vm", "not found", "does not exist"}

\* the process's captured output names one of the three patterns, in any case
OutputHasMissingPattern(res) ==
    \E p \in MissingPatterns :
        Contains(ToLower(res.Stdout), p) \/ Contains(ToLower(res.Stderr), p)

\* the command ran, exited non-zero and reported the machine missing
RecognizedMissing(i) ==
    ResultOf(i).err.kind = "exit" /\ OutputHasMissingPattern(ResultOf(i).result)

Inspected == log # <<>> /\ log[1].cmd = "inspect"

\* C6 (existence check, its clauses on success and on hard errors): after a
\* successful inspect no `machine init` is issued; after an inspect that failed
\* otherwise than by reporting the machine missing (another non-zero exit, a
\* timeout, the executable not starting) no init, start or default-connection
\* command is issued.
C6_InspectHardError ==
    Inspected =>
        /\ Succeeded(1) => CountCmd("init") = 0
        /\ (~Succeeded(1) /\ ~RecognizedMissing(1))
              => CountCmd("init") = 0 /\ CountCmd("start") = 0 /\ CountCmd("default") = 0

----------------------------------------------------------------------------
(* C7 *)

\* C7: a failed command is classified as "machine missing" exactly when its
\* captured stdout or stderr contains, in any case, one of "no such vm",
\* "not found", "does not exist".
C7_ClassifierMatchesOutput ==
    \A i \in DOMAIN log :
        ~Succeeded(i) =>
            (machineMissing(ResultOf(i).err, ResultOf(i).result)
                <=> OutputHasMissingPattern(ResultOf(i).result))

----------------------------------------------------------------------------
(* C8 *)

Inits == {i \in DOMAIN log : log[i].cmd = "init"}

FirstInit == CHOOSE i \in Inits : \A j \in Inits : i <= j

\* the runtime's output says that the connection already exists
OutputReportsConnectionExists(res) ==
    \/ Contains(ToLower(res.Stdout), "connection")
          /\ Contains(ToLower(res.Stdout), "already exists")
    \/ Contains(ToLower(res.Stderr), "connection")
          /\ Contains(ToLower(res.Stderr), "already exists")

FirstInitReportedConnection ==
    /\ Inits # {}
    /\ ~Succeeded(FirstInit)
    /\ OutputReportsConnectionExists(ResultOf(FirstInit).result)

\* C8: `machine init` is attempted at most twice in a build; a second attempt is
\* made exactly when the first failed with the runtime's output reporting that the
\* connection already exists, and then after a repeated connection cleanup; a
\* failed second attempt ends EnsurePodmanMachine with an error.
C8_InitRetryOnce ==
    /\ Cardinality(Inits) <= 2
    /\ Cardinality(Inits) = 2 =>
          /\ FirstInitReportedConnection
          /\ \E i \in DOMAIN log : i > FirstInit /\ log[i].cmd = "conn rm"
    /\ (Returned /\ FirstInitReportedConnection) => Cardinality(Inits) = 2
    /\ (\E i \in Inits : i # FirstInit /\ ~Succeeded(i)) => failed = "machine"

----------------------------------------------------------------------------
(* C9 *)

\* C9: every `machine init` attempt is preceded by the removal attempts for both
\* connection names, `<name>` and then `<name>-root`.
C9_BothRemovalsBeforeInit ==
    \A i \in Inits :
        /\ i > 2
        /\ log[i - 2].cmd = "conn rm"
        /\ log[i - 1].cmd = "conn rm root"

----------------------------------------------------------------------------
(* C10 *)

\* what follows the i-th command: the next command, or the step about to run
FollowedBy(i, cmd) ==
    IF i < Len(log) THEN log[i + 1].cmd = cmd ELSE pc = cmd

\* the i-th command ended EnsurePodmanMachine with an error
Fatal(i) == i = Len(log) /\ failed = "machine" /\ pc \in {"defer", "idle"}

\* C10: the state query follows a successful inspect or init; if it fails, or
\* if the start fails, EnsurePodmanMachine ends with an error and no
\* default-connection command follows; otherwise `machine start` is the next
\* command exactly when the trimmed state is not "running", and the
\* default-connection command comes after a state of "running" or a successful
\* start.
C10_StartIffNotRunning ==
    \A i \in DOMAIN log :
        /\ log[i].cmd = "state" =>
              /\ i > 1
              /\ log[i - 1].cmd \in {"inspect", "init"}
              /\ Succeeded(i - 1)
              /\ IF ~Succeeded(i) THEN Fatal(i)
                 ELSE IF TrimSpace(ResultOf(i).result.Stdout) = <<"running">>
                 THEN FollowedBy(i, "default")
                 ELSE FollowedBy(i, "start")
        /\ log[i].cmd = "start" =>
              /\ i > 1
              /\ log[i - 1].cmd = "state"
              /\ IF Succeeded(i) THEN FollowedBy(i, "default") ELSE Fatal(i)

\* the machine was reported stopped, was started, and the default connection set
C10_Witness ==
    \E i \in DOMAIN log :
        /\ i + 2 <= Len(log)
        /\ log[i].cmd = "state"
        /\ Succeeded(i)
        /\ TrimSpace(ResultOf(i).result.Stdout) = <<"stopped">>
        /\ log[i + 1].cmd = "start"
        /\ Succeeded(i + 1)
        /\ log[i + 2].cmd = "default"

----------------------------------------------------------------------------
(* C11 *)

\* the captured output of the command says "already default"
OutputReportsAlreadyDefault(res) ==
    Contains(res.Stdout, "already default") \/ Contains(res.Stderr, "already default")

\* C11: a default-connection command that fails ends EnsurePodmanMachine with an
\* error exactly when its captured output does not say "already default"; when
\* the output says so the failure is passed over.
C11_AlreadyDefaultTolerated ==
    \A i \in DOMAIN log :
        (log[i].cmd = "default" /\ ~Succeeded(i))
            => (Fatal(i) <=> ~OutputReportsAlreadyDefault(ResultOf(i).result))

----------------------------------------------------------------------------
(* C12 *)

LastCall == calls[Len(calls)]

\* the call in progress directly follows a call of f that met no fault of the
\* host and returned success
Follows(f) ==
    /\ calls # <<>>
    /\ LastCall.op = f
    /\ LastCall.ok
    /\ LastCall.clean
    /\ LastCall.builds = builds

\* C12: when EnsurePodmanMachine is called directly after a call of it that
\* succeeded, and the host puts no fault in its way, the second call succeeds
\* without issuing `machine init` or `machine start`, and the machine is running
\* after each of the two calls.
C12_EnsureTwice ==
    (pc = "return" /\ op = "EnsurePodmanMachine" /\ Follows("EnsurePodmanMachine") /\ NoFault)
        => /\ err.kind = "nil"
           /\ CountCmd("init") = 0
           /\ CountCmd("start") = 0
           /\ machine = "running"
           /\ LastCall.machine = "running"

----------------------------------------------------------------------------
(* C13 *)

\* C13: when EnsurePodmanMachine is called directly after a RemovePodmanMachine
\* that succeeded, and the host puts no fault in its way, it classifies the
\* machine as absent (the connection cleanup follows the inspect), issues exactly
\* one successful `machine init`, succeeds, and leaves the machine running and
\* its connection the default.
C13_RemoveThenEnsure ==
    (pc = "return" /\ op = "EnsurePodmanMachine" /\ Follows("RemovePodmanMachine") /\ NoFault)
        => /\ Len(log) >= 2
           /\ log[1].cmd = "inspect"
           /\ log[2].cmd = "conn rm"
           /\ Cardinality({i \in Inits : Succeeded(i)}) = 1
           /\ err.kind = "nil"
           /\ machine = "running"
           /\ isDefault

----------------------------------------------------------------------------
(* C14 *)

\* the captured output of the stop says, in any case, that the machine is already
\* stopped or does not exist
OutputReportsStoppedOrMissing(res) ==
    \/ Contains(ToLower(res.Stdout), "already stopped")
    \/ Contains(ToLower(res.Stderr), "already stopped")
    \/ OutputHasMissingPattern(res)

\* C14: for a `machine stop` that met a machine stopped or absent,
\* StopPodmanMachine returns success when the command exits zero or exits
\* non-zero with such a report in its captured output, and returns an error for
\* any other failure of the command.
C14_StopOnStoppedOrAbsent ==
    \A i \in DOMAIN log :
        (log[i].cmd = "stop" /\ log[i].machine \in {"stopped", "absent"})
            => IF \/ Succeeded(i)
                  \/ /\ ResultOf(i).err.kind = "exit"
                     /\ OutputReportsStoppedOrMissing(ResultOf(i).result)
               THEN StopPodmanMachine(ResultOf(i)) = NoError
               ELSE StopPodmanMachine(ResultOf(i)).kind # "nil"

----------------------------------------------------------------------------
(* C15 *)

\* a RemovePodmanMachine call is about to return, or was the last call to return
Removing == op = "RemovePodmanMachine"

RemoveDone == Removing /\ pc \in {"return", "idle"}

\* C15: in RemovePodmanMachine the forced removal is the second command, after a
\* stop that returned success, and it is issued whenever the stop returned
\* success; a removal that failed with the runtime's output reporting the
\* machine missing (the host putting no fault in the call's way) makes the call
\* return success; a removal that succeeded is
\* followed by the connection cleanup, and the call returns success whatever
\* the cleanup's commands returned.
C15_RemoveSequence ==
    Removing =>
        /\ \A i \in DOMAIN log :
              log[i].cmd = "machine rm"
                  => i = 2 /\ log[1].cmd = "stop" /\ StopPodmanMachine(ResultOf(1)) = NoError
        /\ (RemoveDone /\ log # <<>> /\ StopPodmanMachine(ResultOf(1)) = NoError)
              => Len(log) >= 2 /\ log[2].cmd = "machine rm"
        /\ (RemoveDone /\ Len(log) >= 2)
              => /\ (RecognizedMissing(2) /\ NoFault) => ret = NoError
                 /\ Succeeded(2) => Len(log) >= 3 /\ log[3].cmd = "conn rm" /\ ret = NoError

----------------------------------------------------------------------------
(* C16 *)

\* the value of the binding is a path under <dir>/runtime/podman
UnderRuntime(binding, dir) ==
    /\ Len(binding) >= Len(dir) + 4
    /\ SubSeq(binding, 2, Len(dir) + 3) = dir \o <<"runtime", "podman">>

\* podmanEnv failed in the call in progress or in the last call
PodmanEnvFailed ==
    \/ op = "EnsurePodmanMachine" /\ err = IOError
    \/ op = "RemovePodmanMachine" /\ pc \in {"return", "idle"} /\ ret = IOError
    \/ op = "Build" /\ failed = "machine" /\ err = Wrap(StepLabel("machine"), IOError)

\* C16: every podman command of Build, EnsurePodmanMachine and
\* RemovePodmanMachine (the stops included) is run with the six bindings of
\* podmanEnv for the call's baseDir, each a path under <baseDir>/runtime/podman,
\* and when it starts the four directories exist; a call in which podmanEnv
\* could not make a directory runs no command.
C16_EnvIsolation ==
    /\ \A i \in DOMAIN log :
          /\ log[i].env = podmanEnvOf(baseDir)
          /\ Len(log[i].env) = 6
          /\ \A k \in DOMAIN log[i].env : UnderRuntime(log[i].env[k], baseDir)
          /\ \A k \in DOMAIN PodmanDirs : PodmanDirs[k] \in log[i].dirs
    /\ PodmanEnvFailed => log = <<>>

\* RemovePodmanMachine, called first of all, made the directories and ran its
\* stop and its removal
C16_Witness ==
    /\ op = "RemovePodmanMachine"
    /\ calls = <<>>
    /\ builds = 0
    /\ Len(log) >= 2
    /\ log[2].cmd = "machine rm"

----------------------------------------------------------------------------
(* C17 *)

\* RunCommand has returned from a call with a non-empty name
RunReturned == run.state = "returned" /\ run.name # <<>>

\* the process was started and would run longer than the positive timeout
Overran ==
    /\ run.opts.Timeout > 0
    /\ run.beh.launch
    /\ run.beh.dur > run.opts.Timeout

\* no write to a duplicate sink failed
SinksSound ==
    /\ ~copyFailed(Output(run.beh.stdout, run.opts.Timeout, run.beh), run.opts.Stdout,
                   run.beh.outFail)
    /\ ~copyFailed(Output(run.beh.stderr, run.opts.Timeout, run.beh), run.opts.Stderr,
                   run.beh.errFail)

\* C17: when the process runs longer than a positive timeout, RunCommand returns
\* a non-nil result with TimedOut set and a timeout error; the process ran no
\* longer than the timeout; the result holds the chunks each stream was written
\* up to the deadline (all of them when no write to a duplicate sink failed,
\* and never a chunk written later).
C17_TimeoutResult ==
    (RunReturned /\ Overran) =>
        LET out == Emitted(run.beh.stdout, run.beh.pace, run.opts.Timeout)
            errout == Emitted(run.beh.stderr, run.beh.pace, run.opts.Timeout)
        IN  /\ ~run.res.nil
            /\ run.res.TimedOut
            /\ run.err.kind = "timeout"
            /\ run.res.Duration <= run.opts.Timeout
            /\ run.res.Stdout = SubSeq(out, 1, Len(run.res.Stdout))
            /\ run.res.Stderr = SubSeq(errout, 1, Len(run.res.Stderr))
            /\ SinksSound => run.res.Stdout = out /\ run.res.Stderr = errout

\* a process writing as it goes was cut at the deadline: the result holds what
\* it had written, not all it would have written
C17_Witness ==
    /\ RunReturned
    /\ Overran
    /\ run.res.TimedOut
    /\ run.res.Stdout # <<>>
    /\ Len(run.res.Stdout) < Len(run.beh.stdout)
    /\ SinksSound

----------------------------------------------------------------------------
(* C18 *)

\* C18: with a timeout of 0 RunCommand never sets TimedOut and never returns a
\* timeout error, however long the process runs.
C18_NoDeadlineWithoutTimeout ==
    (RunReturned /\ run.opts.Timeout = 0)
        => ~run.res.TimedOut /\ run.err.kind # "timeout"

\* a process that hangs, run without a timeout, ended by itself and succeeded
C18_Witness ==
    /\ RunReturned
    /\ run.opts.Timeout = 0
    /\ run.beh.launch
    /\ run.beh.dur = Hang
    /\ run.err.kind = "nil"

----------------------------------------------------------------------------
(* C19 *)

\* the process was started and ended by itself, within the deadline if there is one
Completed ==
    /\ run.beh.launch
    /\ run.opts.Timeout > 0 => run.beh.dur <= run.opts.Timeout

\* C19: a call with a non-empty name (no write to a duplicate sink failing) ends
\* in exactly one of four ways: success
\* exactly when the process exited 0 and did not overrun its deadline; a timeout
\* error when it overran; an exit-code error when it exited non-zero within the
\* deadline; a launch error when it could not be started.  So a process that
\* exited 0 within its deadline is reported neither as timed out nor as failed.
C19_OutcomeClasses ==
    (RunReturned /\ SinksSound) =>
        /\ run.err.kind = "nil" <=> (Completed /\ run.beh.code = 0)
        /\ Overran => run.err.kind = "timeout" /\ run.res.TimedOut
        /\ (Completed /\ run.beh.code # 0) => run.err.kind = "exit"
        /\ ~run.beh.launch => run.err.kind = "launch"
        /\ (Completed /\ run.beh.code = 0) => ~run.res.TimedOut

----------------------------------------------------------------------------
(* C20 *)

\* C20: the captured Stdout and Stderr of a started process are all that the
\* process wrote to each stream, with or without a duplicate sink and whether
\* or not the writes to the sink succeed; a sink that is given holds the same.
C20_CaptureComplete ==
    (RunReturned /\ run.beh.launch) =>
        /\ run.res.Stdout = Output(run.beh.stdout, run.opts.Timeout, run.beh)
        /\ run.res.Stderr = Output(run.beh.stderr, run.opts.Timeout, run.beh)
        /\ run.opts.Stdout => run.sinks.Stdout = run.res.Stdout
        /\ run.opts.Stderr => run.sinks.Stderr = run.res.Stderr

----------------------------------------------------------------------------
(* C21 *)

\* C21: a call of RunCommand with an empty command name returns the
\* invalid-input error and no result; no process is started, nothing is written
\* to a duplicate sink and the logger is told nothing.
C21_EmptyNameRejected ==
    (run.state = "returned" /\ run.name = <<>>) =>
        /\ run.err.kind = "invalid"
        /\ run.res.nil
        /\ ~run.started
        /\ run.notes = <<>>
        /\ run.sinks = [Stdout |-> <<>>, Stderr |-> <<>>]

\* the empty name with a logger, sinks and a command that could have been started
C21_Witness ==
    /\ run.state = "returned"
    /\ run.name = <<>>
    /\ run.opts.Logger
    /\ run.opts.Stdout
    /\ run.beh.launch
    /\ run.beh.stdout # <<>>

----------------------------------------------------------------------------
(* C22 - C27: the smoke test *)

TestDone == vm.pc = "done"

\* the command did a file operation of the kind on the path (or started the VM)
Happened(kind, path) ==
    \E i \in DOMAIN vm.events : vm.events[i] = [op |-> kind, path |-> path]

\* the first time it did
FirstAt(kind, path) ==
    CHOOSE i \in DOMAIN vm.events :
        /\ vm.events[i] = [op |-> kind, path |-> path]
        /\ \A j \in 1..(i - 1) : vm.events[j] # vm.events[i]

Launched == vm.pc \in {"cleanup", "done"} /\ vm.launch # <<>>

\* a clone file, whole or partial, was created
CloneBegun == Happened("write", clonePathOf(baseDir))

\* the run works on the clone or on the VM
Proceeded ==
    \E i \in DOMAIN vm.events : vm.events[i].op \in {"mkdir", "read", "write", "exec", "delete"}

\* a file the prechecks look for is not there as a file
PrecheckFails ==
    \/ vm.vmPath # <<>> /\ vm.exe # "file"
    \/ iso = 0
    \/ vm.qcow # "file"

\* C22: the VM executable (when a path is given), the ISO and the base image
\* are checked in this order before the clone is created and the VM started;
\* when one of them is not there as a file, no clone is created and no VM is
\* started, and the command returns an error; a base image that is missing when
\* its check is reached gives an error naming "velocloud qcow2 image".
C22_PrechecksFirst ==
    /\ Proceeded =>
          /\ Happened("stat", isoPathOf(baseDir))
          /\ Happened("stat", qcowPathOf(baseDir))
          /\ FirstAt("stat", isoPathOf(baseDir)) < FirstAt("stat", qcowPathOf(baseDir))
          /\ \A i \in DOMAIN vm.events :
                vm.events[i].op \in {"mkdir", "read", "write", "exec", "delete"}
                    => FirstAt("stat", qcowPathOf(baseDir)) < i
          /\ vm.vmPath # <<>> =>
                /\ Happened("stat", vm.absVM)
                /\ FirstAt("stat", vm.absVM) < FirstAt("stat", isoPathOf(baseDir))
    /\ (vm.pc \notin {"idle", "exe"} /\ PrecheckFails) =>
          /\ ~Proceeded
          /\ vm.clone = "absent"
          /\ vm.launch = <<>>
          /\ TestDone => vm.ret.kind # "nil"
    /\ (TestDone /\ vm.qcow = "missing" /\ Happened("stat", qcowPathOf(baseDir))) =>
          /\ vm.ret.kind = "notfound"
          /\ Contains(vm.ret.msg, "velocloud qcow2 image")

\* the executable and the ISO are there, the base image is not
C22_Witness ==
    /\ TestDone
    /\ vm.vmPath # <<>>
    /\ vm.qcow = "missing"
    /\ Contains(vm.ret.msg, "velocloud qcow2 image")
    /\ ~Proceeded

\* C23: when the command returns after a clone file was created (whole or
\* partial), the removal of the clone has been attempted, and no clone file is
\* left unless that removal failed.
C23_CloneRemovalAttempted ==
    (TestDone /\ CloneBegun) =>
        /\ Happened("delete", clonePathOf(baseDir))
        /\ ~vm.warned => vm.clone = "absent"

\* the VM process failed by itself: not started, a non-zero exit, or the timeout
ProcessFailed ==
    LET beh == vm.launch[1].beh IN
    ~beh.launch \/ beh.code # 0 \/ beh.dur > vmRunTimeout

\* C24: once the VM has been launched on the clone, the command returns an error
\* exactly when the process was not started, exited non-zero or timed out,
\* whether the removal of the clone succeeds or fails.
C24_ResultIsProcessResult ==
    (Launched /\ TestDone) =>
        /\ vm.ret.kind # "nil" <=> ProcessFailed
        /\ Happened("delete", clonePathOf(baseDir))

\* the name of the executable, lower-cased, has "qemu" in it
QemuNamed == Contains(ToLower(Base(vm.absVM)), "qemu")

\* C25: the arguments of the VM are the 24 of the template (with the clone in
\* -drive and the ISO after -cdrom) when QEMU is bundled or the executable is
\* named like QEMU, else --disk <clone> --cdrom <iso>; the extra arguments Run
\* was given follow, as they are.
C25_LaunchArguments ==
    Launched =>
        LET a == vm.launch[1].args
            clone == clonePathOf(baseDir)
            fixed == IF vm.bundled \/ QemuNamed THEN 24 ELSE 4
        IN  /\ Len(a) = fixed + Len(vm.extra)
            /\ SubSeq(a, fixed + 1, Len(a)) = vm.extra
            /\ IF vm.bundled \/ QemuNamed
               THEN /\ SubSeq(a, 1, fixed) = defaultQEMUArgs(clone, isoPathOf(baseDir), vm.accel)
                    /\ a[7] = <<"-drive">>
                    /\ a[8] = <<"if=virtio,format=qcow2,file=">> \o clone
                    /\ a[9] = <<"-cdrom">>
                    /\ a[10] = isoPathOf(baseDir)
               ELSE SubSeq(a, 1, fixed)
                        = << <<"--disk">>, clone, <<"--cdrom">>, isoPathOf(baseDir) >>

\* an executable whose name has "qemu" in it but not at its beginning, with extras
C25_Witness ==
    /\ Launched
    /\ ~vm.bundled
    /\ Base(vm.absVM) = <<"MyQemu.exe">>
    /\ Len(vm.extra) = 2

\* the arguments of the command line after its first `--`
RECURSIVE AfterDashes(_)
AfterDashes(argv) ==
    IF argv = <<>> THEN <<>>
    ELSE IF Head(argv) = <<"--">> THEN Tail(argv)
    ELSE AfterDashes(Tail(argv))

\* C26: the arguments given after `--` on the command line are the last
\* arguments of the VM, unchanged and in order, whatever their values.
C26_ExtrasReachVM ==
    Launched =>
        LET a == vm.launch[1].args
            given == AfterDashes(vm.argv)
        IN  /\ Len(a) >= Len(given)
            /\ SubSeq(a, Len(a) - Len(given) + 1, Len(a)) = given
            /\ vm.extra = given

\* C27: the command only stats and reads images/velocloud.qcow2: it never
\* writes or deletes it, and no argument of the VM names it; the disk the VM is
\* given is the clone.
C27_BaseImageUntouched ==
    /\ \A i \in DOMAIN vm.events :
          vm.events[i].path = qcowPathOf(baseDir) => vm.events[i].op \in {"stat", "read"}
    /\ Launched =>
          LET a == vm.launch[1].args IN
          /\ vm.launch[1].name # qcowPathOf(baseDir)
          /\ \A i \in DOMAIN a : ~Contains(a[i], "images/velocloud.qcow2")
          /\ \E i \in DOMAIN a :
                \E k \in 1..Len(a[i]) :
                    SubSeq(a[i], k, Len(a[i])) = clonePathOf(baseDir)

\* the base image was read for the clone and the VM has run on the clone
C27_Witness ==
    /\ TestDone
    /\ Launched
    /\ Happened("read", qcowPathOf(baseDir))
    /\ vm.ret.kind = "nil"

----------------------------------------------------------------------------
(* C28 *)

\* C28: in every call of EnsureTemplates, whatever the user did to the files
\* before it, a template file that existed keeps its content, and after a call
\* that returned no error a file that did not exist holds the default content
\* (and only the files that did not exist are reported as created).
C28_TemplatesNeverOverwritten ==
    \A i \in DOMAIN calls :
        calls[i].op = "EnsureTemplates" =>
            LET b == calls[i].before
                a == calls[i].after
            IN  /\ b.userData # Absent => a.userData = b.userData
                /\ b.metaData # Absent => a.metaData = b.metaData
                /\ calls[i].ok =>
                      /\ b.userData = Absent => a.userData = defaultUserData
                      /\ b.metaData = Absent => a.metaData = defaultMetaData
                      /\ calls[i].created =
                            (IF b.userData = Absent THEN <<"user-data">> ELSE <<>>)
                                \o (IF b.metaData = Absent THEN <<"meta-data">> ELSE <<>>)

\* a second call, after the user rewrote one default and deleted the other
C28_Witness ==
    /\ Len(calls) = 2
    /\ calls[1].ok
    /\ calls[2].ok
    /\ calls[1].after = [userData |-> defaultUserData, metaData |-> defaultMetaData]
    /\ calls[2].before = [userData |-> <<"#cloud-config", "hostname: edge1">>, metaData |-> Absent]
    /\ calls[2].after = [userData |-> <<"#cloud-config", "hostname: edge1">>,
                         metaData |-> defaultMetaData]

----------------------------------------------------------------------------
(* C29 *)

UninstallDone == un.pc = "done"

\* the place of an event of the command (0: it did not happen)
UninstallAt(e) ==
    IF \E i \in DOMAIN un.events : un.events[i] = e
    THEN CHOOSE i \in DOMAIN un.events : un.events[i] = e
    ELSE 0

\* the contexts of the errors the command returns for a step of its own
UninstallLabels == {"remove", "launch cleanup script", "close log file", "remove logs directory"}

----------------------------------------------------------------------------
(* C30 *)

\* the text has a white-space character (space, tab, line feed) or a double
\* quote in it
HasSpaceOrQuote(s) == \E i \in DOMAIN s : s[i] \in {"sp", "tab", "nl", "dq"}

\* the text with a backslash before each double quote
RECURSIVE Backslashed(_)
Backslashed(s) ==
    IF s = <<>> THEN <<>>
    ELSE Backslashed(SubSeq(s, 1, Len(s) - 1))
             \o (IF s[Len(s)] = "dq" THEN <<"bs", "dq">> ELSE <<s[Len(s)]>>)

\* how the claim renders one token
Rendered(s) ==
    IF s = <<>> THEN <<"dq", "dq">>
    ELSE IF HasSpaceOrQuote(s) THEN <<"dq">> \o Backslashed(s) \o <<"dq">>
    ELSE s

\* the renderings of the tokens from the k-th on, a space before each
RECURSIVE SpacedFrom(_, _)
SpacedFrom(tokens, k) ==
    IF k > Len(tokens) THEN <<>>
    ELSE <<"sp">> \o Rendered(tokens[k]) \o SpacedFrom(tokens, k + 1)

\* C30: the command string is the command name and the arguments in order, one
\* space between them, each in double quotes with its double quotes
\* backslash-escaped exactly when it has a white-space character or a double
\* quote in it, the empty one as "", every other one as it is.
C30_CommandStringQuoting ==
    run.state = "joined" =>
        run.out = Rendered(run.name) \o SpacedFrom(run.args, 1)

----------------------------------------------------------------------------
(* C31 *)

\* what RunCommand returns for the call of the state with the logger put or
\* left out
WithLogger(supplied) ==
    RunCommand([run.opts EXCEPT !.Logger = supplied], run.name, run.args, run.beh)

\* the fields of a result other than the duration
SameButDuration(a, b) ==
    /\ a.nil = b.nil
    /\ a.Stdout = b.Stdout
    /\ a.Stderr = b.Stderr
    /\ a.ExitCode = b.ExitCode
    /\ a.TimedOut = b.TimedOut

\* C31: the logger is observability only. The call that returned gave the result
\* fields (other than the duration) and the error that the same call gives with
\* a logger and without one; and with a logger and a name, the logger was told
\* the start of the command first and its end second, once each, whether the
\* process ran, failed, was killed or could not be started.
C31_LoggerObservabilityOnly ==
    run.state = "returned" =>
        /\ SameButDuration(WithLogger(TRUE).result, WithLogger(FALSE).result)
        /\ WithLogger(TRUE).err = WithLogger(FALSE).err
        /\ (run.opts.Logger /\ run.name # <<>>) =>
              /\ Len(run.notes) = 2
              /\ run.notes[1][1] = "running command:"
              /\ run.notes[2][1] = "command finished"
        /\ ~run.opts.Logger => run.notes = <<>>

----------------------------------------------------------------------------
(* C32 *)

\* the variable holds nothing but white space
Blank(v) == \A i \in DOMAIN v : IsSpace(v[i])

\* C32: when the VM is launched with the fixed argument template, the argument
\* after -accel is "tcg" if CLOUDINIT_BUILDER_QEMU_ACCEL is unset, empty or only
\* white space, and else the value of the variable without its leading and
\* trailing white space.
C32_AcceleratorSelection ==
    (Launched /\ (vm.bundled \/ QemuNamed)) =>
        LET a == vm.launch[1].args
            at == {i \in 1..(Len(a) - 1) : a[i] = <<"-accel">>}
        IN  /\ at # {}
            /\ \A i \in at :
                  a[i + 1] = IF vm.accel = Unset \/ Blank(vm.accel)
                             THEN <<"tcg">>
                             ELSE TrimSpace(vm.accel)

\* the template is used with a value that has white space around it
C32_Witness ==
    /\ Launched
    /\ vm.bundled \/ QemuNamed
    /\ vm.accel = <<"sp", "whpx", "nl">>
    /\ \E i \in 1..(Len(vm.launch[1].args) - 1) :
          vm.launch[1].args[i] = <<"-accel">> /\ vm.launch[1].args[i + 1] = <<"whpx">>

----------------------------------------------------------------------------
(* C33 *)

\* the commands that inspect the machine or change the connections
ShortKinds == {"inspect", "state", "conn rm", "conn rm root", "default"}

\* C33: every command of the lifecycle controller runs with a positive timeout;
\* the inspections (the existence inspect too) and the connection commands run
\* with the short bound, which is some tens of seconds and less than the bound
\* of machine start; machine start runs with the medium bound; and machine
\* creation with the longest, which is no more than 10 times the medium one.
C33_TimeoutBudget ==
    /\ shortTimeout \in 10..99
    /\ shortTimeout < machineStartTimeout
    /\ machineStartTimeout < machineInitTimeout
    /\ machineInitTimeout <= 10 * machineStartTimeout
    /\ \A i \in DOMAIN log :
          /\ log[i].timeout > 0
          /\ log[i].cmd \in ShortKinds => log[i].timeout = shortTimeout
          /\ log[i].cmd = "start" => log[i].timeout = machineStartTimeout
          /\ log[i].cmd = "init" => log[i].timeout = machineInitTimeout

----------------------------------------------------------------------------
(* C34 *)

\* the path is the destination directory or lies under it
Inside(path, dest) == Len(path) >= Len(dest) /\ SubSeq(path, 1, Len(dest)) = dest

\* C34: whatever the names of the entries, extractZip makes files and
\* directories only at the destination directory or under it; an entry whose
\* name leads elsewhere is rejected with the unsafe-path error.
C34_ExtractionStaysInside ==
    /\ \A p \in zip.made : Inside(p, zip.dest)
    /\ \A k \in DOMAIN zip.tried :
          ~Inside(filepathJoin(zip.dest, zip.files[zip.tried[k]].name), zip.dest)
              => (k = Len(zip.tried) /\ zip.ret.kind = "unsafe")

----------------------------------------------------------------------------
(* C35 *)

\* the answer is y or yes, in either case, white space around it aside
Affirmative(resp) == ToLower(TrimSpace(resp)) \in {<<"y">>, <<"yes">>}

\* C35: at the confirmation of the menu's uninstall, the uninstall runs only for
\* the answer y or yes in either case; for an empty answer and for any other
\* answer the menu comes back and nothing under the base directory is removed.
C35_UninstallNeedsExplicitYes ==
    /\ \A i \in DOMAIN un.asked : un.asked[i].ran => Affirmative(un.asked[i].resp)
    /\ (\A i \in DOMAIN un.asked : ~Affirmative(un.asked[i].resp)) =>
          /\ un.events = <<>>
          /\ un.present = LayoutDirs

----------------------------------------------------------------------------
(* C36 *)

\* the five directories PerformUninstall removes
FiveDirs == <<"tools", "images", "runtime", "cache", "templates">>

IsOfFive(e) == \E k \in DOMAIN FiveDirs : FiveDirs[k] = e

\* the directories removed so far, in the order of their removal
RemovedDirs == SelectSeq(un.events, IsOfFive)

\* C36: the self-delete script is written and started only after the five
\* directories were removed, with --self-delete given and the path of the
\* executable known; when the removal of a directory fails the command returns
\* "remove <that directory>: ..." with the directories before it removed, no
\* later one removed and no script written or started.
C36_SelfDeleteLast ==
    /\ (UninstallAt("script") > 0 \/ UninstallAt("cmd.exe") > 0) =>
          /\ un.selfDelete
          /\ un.binary # <<>>
          /\ RemovedDirs = FiveDirs
          /\ \A k \in DOMAIN FiveDirs : UninstallAt(FiveDirs[k]) < UninstallAt("script")
          /\ UninstallAt("script") < UninstallAt("cmd.exe")
    /\ (UninstallDone /\ un.ret.kind # "nil" /\ Head(un.ret.msg) = "remove") =>
          /\ Len(RemovedDirs) < Len(FiveDirs)
          /\ RemovedDirs = SubSeq(FiveDirs, 1, Len(RemovedDirs))
          /\ un.ret.msg[3] = FiveDirs[Len(RemovedDirs) + 1]
          /\ UninstallAt("script") = 0
          /\ UninstallAt("cmd.exe") = 0
          /\ UninstallAt("logs") = 0

\* --self-delete with a known executable: the script is started after the five
\* removals and the command returns no error
C36_Witness ==
    /\ UninstallDone
    /\ un.ret.kind = "nil"
    /\ un.selfDelete
    /\ UninstallAt("script") = Len(RemovedDirs) + UninstallAt("tools")
    /\ RemovedDirs = FiveDirs

=============================================================================
